---------------------------- MODULE Spec2Model ----------------------------
(***************************************************************************)
(* Promotion deduplication and temporal comparison engine of               *)
(* database/db_manager.py (DatabaseManager) together with the writers of   *)
(* the tables it reads: insert_promotions and                              *)
(* DeepSeekCleaner.clean_latest_promotions.                                *)
(*                                                                         *)
(* A text is a sequence of characters; a character is a one-character      *)
(* string.  The combining acute accent, the combining tilde and the em     *)
(* dash are written "U+0301", "U+0303" and "U+2014".                       *)
(***************************************************************************)
EXTENDS Integers, Sequences, FiniteSets

(***************************************************************************)
(* Characters and the string primitives of Python used by the code         *)
(***************************************************************************)
Digits == {"0","1","2","3","4","5","6","7","8","9"}

LowerLetters == <<"a","b","c","d","e","f","g","h","i","j","k","l","m",
                  "n","o","p","q","r","s","t","u","v","w","x","y","z">>

UpperLetters == <<"A","B","C","D","E","F","G","H","I","J","K","L","M",
                  "N","O","P","Q","R","S","T","U","V","W","X","Y","Z">>

\* str.strip() and the regex class \s
Whitespace == {" ", "\t", "\n"}

Range(f) == { f[i] : i \in DOMAIN f }

\* str.lower(), one character
LowerChar(c) ==
  IF \E i \in 1..26 : UpperLetters[i] = c
    THEN LowerLetters[CHOOSE i \in 1..26 : UpperLetters[i] = c]
    ELSE IF c = "Ó" THEN "ó"
    ELSE IF c = "É" THEN "é"
    ELSE IF c = "Ñ" THEN "ñ"
    ELSE c

\* str.upper(), one character
UpperChar(c) ==
  IF \E i \in 1..26 : LowerLetters[i] = c
    THEN UpperLetters[CHOOSE i \in 1..26 : LowerLetters[i] = c]
    ELSE IF c = "ó" THEN "Ó"
    ELSE IF c = "é" THEN "É"
    ELSE IF c = "ñ" THEN "Ñ"
    ELSE c

Lower(s) == [i \in 1..Len(s) |-> LowerChar(s[i])]

Upper(s) == [i \in 1..Len(s) |-> UpperChar(s[i])]

\* unicodedata.normalize("NFKD", ch) for one character
NFKDChar(c) ==
  IF c = "ó" THEN <<"o", "U+0301">>
  ELSE IF c = "é" THEN <<"e", "U+0301">>
  ELSE IF c = "ñ" THEN <<"n", "U+0303">>
  ELSE IF c = "Ó" THEN <<"O", "U+0301">>
  ELSE IF c = "É" THEN <<"E", "U+0301">>
  ELSE IF c = "Ñ" THEN <<"N", "U+0303">>
  ELSE <<c>>

\* unicodedata.combining(ch) != 0
Combining(c) == c \in {"U+0301", "U+0303"}

RECURSIVE NFKD(_)
NFKD(s) == IF s = <<>> THEN <<>> ELSE NFKDChar(Head(s)) \o NFKD(Tail(s))

\* a text that keeps its combining marks
KeepCombining(s) == s

\* "".join(ch for ch in s if not unicodedata.combining(ch))
RECURSIVE DropCombining(_)
DropCombining(s) ==
  IF s = <<>> THEN <<>>
  ELSE IF Combining(Head(s)) THEN DropCombining(Tail(s))
  ELSE <<Head(s)>> \o DropCombining(Tail(s))

RECURSIVE LStrip(_)
LStrip(s) ==
  IF s # <<>> /\ Head(s) \in Whitespace THEN LStrip(Tail(s)) ELSE s

RECURSIVE RStrip(_)
RStrip(s) ==
  IF s # <<>> /\ s[Len(s)] \in Whitespace
    THEN RStrip(SubSeq(s, 1, Len(s) - 1))
    ELSE s

\* str.strip()
Strip(s) == RStrip(LStrip(s))

\* s[from:] starts with p
StartsAt(s, from, p) ==
  /\ from >= 1
  /\ from + Len(p) - 1 <= Len(s)
  /\ \A i \in 1..Len(p) : s[from + i - 1] = p[i]

\* str.replace(old, new): left to right, non-overlapping occurrences
RECURSIVE Replace(_, _, _)
Replace(s, old, new) ==
  IF Len(s) < Len(old) THEN s
  ELSE IF StartsAt(s, 1, old)
    THEN new \o Replace(SubSeq(s, Len(old) + 1, Len(s)), old, new)
    ELSE <<Head(s)>> \o Replace(Tail(s), old, new)

\* old in s
Contains(s, old) == \E i \in 1..(Len(s) - Len(old) + 1) : StartsAt(s, i, old)

\* str.count(ch)
Count(s, ch) == Cardinality({ i \in 1..Len(s) : s[i] = ch })

\* sep.join(parts)
RECURSIVE Join(_, _)
Join(sep, parts) ==
  IF parts = <<>> THEN <<>>
  ELSE IF Len(parts) = 1 THEN parts[1]
  ELSE parts[1] \o sep \o Join(sep, Tail(parts))

\* the characters of the model in code point order (the order of Python's
\* str comparison and of SQLite's BINARY collation)
CodeOrder == <<
  "\t", "\n", " ", "$", "%", "&", "+", ",", "-", ".", "/", "0", "1",
  "2", "3", "4", "5", "6", "7", "8", "9", ":", "=", "?", "A", "B",
  "C", "D", "E", "F", "G", "H", "I", "J", "K", "L", "M", "N", "O",
  "P", "Q", "R", "S", "T", "U", "V", "W", "X", "Y", "Z", "_", "a",
  "b", "c", "d", "e", "f", "g", "h", "i", "j", "k", "l", "m", "n",
  "o", "p", "q", "r", "s", "t", "u", "v", "w", "x", "y", "z", "|",
  "£", "É", "Ñ", "Ó", "é", "ñ", "ó", "U+0301", "U+0303", "U+2014", "€" >>

Ord(c) == CHOOSE i \in 1..Len(CodeOrder) : CodeOrder[i] = c

\* Python's < on str
RECURSIVE StrLess(_, _)
StrLess(a, b) ==
  IF b = <<>> THEN FALSE
  ELSE IF a = <<>> THEN TRUE
  ELSE IF Head(a) = Head(b) THEN StrLess(Tail(a), Tail(b))
  ELSE Ord(Head(a)) < Ord(Head(b))

\* min(S) for a non-empty set of strings
LeastStr(S) == CHOOSE x \in S : \A y \in S \ {x} : StrLess(x, y)

\* sorted(set(xs)) for a list of strings
RECURSIVE SortedSet(_)
SortedSet(S) ==
  IF S = {} THEN <<>>
  ELSE <<LeastStr(S)>> \o SortedSet(S \ {LeastStr(S)})

\* str(int(num)) for a non-empty string of decimal digits
RECURSIVE StrInt(_)
StrInt(num) ==
  IF Len(num) > 1 /\ Head(num) = "0" THEN StrInt(Tail(num)) ELSE num

\* the characters of s that are not in drop, in order
RECURSIVE Without(_, _)
Without(s, drop) ==
  IF s = <<>> THEN <<>>
  ELSE IF Head(s) \in drop THEN Without(Tail(s), drop)
  ELSE <<Head(s)>> \o Without(Tail(s), drop)

(***************************************************************************)
(* _normalize_text                                                         *)
(***************************************************************************)
\* the class [a-z0-9%$€\s\.,\-] of the first re.sub
NormAllowed == Range(LowerLetters) \cup Digits \cup Whitespace
               \cup {"%", "$", "€", ".", ",", "-"}

\* re.sub(r"[^a-z0-9%$€\s\.,\-]", " ", s)
BlankDisallowed(s) ==
  [i \in 1..Len(s) |-> IF s[i] \in NormAllowed THEN s[i] ELSE " "]

\* re.sub(r"\s+", " ", s)
RECURSIVE CollapseWs(_)
CollapseWs(s) ==
  IF s = <<>> THEN <<>>
  ELSE IF Head(s) \in Whitespace
    THEN <<" ">> \o CollapseWs(LStrip(s))
    ELSE <<Head(s)>> \o CollapseWs(Tail(s))

\* the synonym table, in the order the replacements are applied
Synonyms == <<
  << <<"f","i","r","s","t"," ","t","i","m","e"," ","d","e","p","o","s","i","t">>,
     <<"f","i","r","s","t"," ","d","e","p","o","s","i","t">> >>,
  << <<"p","r","i","m","e","r"," ","d","e","p","o","s","i","t","o">>,
     <<"f","i","r","s","t"," ","d","e","p","o","s","i","t">> >>,
  << <<"p","r","i","m","e","r"," ","d","e","p","ó","s","i","t","o">>,
     <<"f","i","r","s","t"," ","d","e","p","o","s","i","t">> >>,
  << <<"b","o","n","o"," ","d","e"," ","b","i","e","n","v","e","n","i","d","a">>,
     <<"w","e","l","c","o","m","e"," ","b","o","n","u","s">> >>,
  << <<"c","r","y","p","t","o"," ","p","a","r","a"," ","d","e","p","o","r","t","e","s">>,
     <<"c","r","y","p","t","o"," ","s","p","o","r","t","s">> >>,
  << <<"d","e","p","o","r","t","e","s">>,
     <<"s","p","o","r","t","s">> >> >>

RECURSIVE ApplySynonyms(_, _)
ApplySynonyms(s, k) ==
  IF k > Len(Synonyms) THEN s
  ELSE ApplySynonyms(Replace(s, Synonyms[k][1], Synonyms[k][2]), k + 1)

\* lower and strip; NFKD without the combining marks; the synonyms; the
\* two re.sub; strip
_normalize_text(s) ==
  IF s = <<>> THEN <<>>
  ELSE Strip(CollapseWs(BlankDisallowed(
         ApplySynonyms(DropCombining(NFKD(Strip(Lower(s)))), 1))))

(***************************************************************************)
(* _parse_amount_key                                                       *)
(***************************************************************************)
\* UNIT_LIST, in the order of the alternation UNIT_RE = '|'.join(UNIT_LIST).
\* The tokens are spliced into the pattern unescaped, so the second
\* alternative is the regex assertion $ (end of the text, or just before a
\* final newline) and consumes nothing; it is not a dollar sign.
UNIT_LIST == << <<"€">>, <<"$">>, <<"£">>,
                <<"u","s","d","t">>, <<"u","s","d">>, <<"e","u","r">>,
                <<"a","e","d">>, <<"z","a","r">>, <<"g","b","p">>,
                <<"b","r","l">> >>

\* CURRENCY_MAP.get(unit_raw, unit_raw)
CURRENCY_MAP(unit_raw) ==
  IF unit_raw = <<"€">> THEN <<"e","u","r">>
  ELSE IF unit_raw = <<"$">> THEN <<"u","s","d">>
  ELSE IF unit_raw = <<"£">> THEN <<"g","b","p">>
  ELSE unit_raw

\* number of characters of the class cls at the head of t[from:]
RECURSIVE RunLen(_, _, _)
RunLen(t, from, cls) ==
  IF from <= Len(t) /\ t[from] \in cls THEN 1 + RunLen(t, from + 1, cls) ELSE 0

IsDigitAt(t, i) == i >= 1 /\ i <= Len(t) /\ t[i] \in Digits

\* alternative k of UNIT_RE matches at position from of t; the regex
\* assertion $ holds at the end of t and before a final newline
UnitMatches(t, from, k) ==
  IF UNIT_LIST[k] = <<"$">>
    THEN from = Len(t) + 1 \/ (from = Len(t) /\ t[from] = "\n")
  ELSE StartsAt(t, from, UNIT_LIST[k])

\* number of characters alternative k of UNIT_RE consumes
UnitWidth(k) == IF UNIT_LIST[k] = <<"$">> THEN 0 ELSE Len(UNIT_LIST[k])

UnitsAt(t, from) == { k \in 1..Len(UNIT_LIST) : UnitMatches(t, from, k) }

Min(S) == CHOOSE x \in S : \A y \in S : x <= y

Max(S) == CHOOSE x \in S : \A y \in S : x >= y

\* the characters [\d\.,] of the number pattern
NumChars == Digits \cup {".", ","}

\* of the pairs <<a, w>> a greedy pattern may settle on, the one it settles
\* on: the longest first part, then the longest second part
Greedy(cands) ==
  CHOOSE c \in cands :
    \A d \in cands : d[1] < c[1] \/ (d[1] = c[1] /\ d[2] <= c[2])

\* (\d[\d\.,]*)\s*UNIT at from: the pairs <<a, w>> of a number of a
\* characters and w blanks after which an alternative of UNIT_RE matches
NumUnitCands(t, from) ==
  { c \in (1..(1 + RunLen(t, from + 1, NumChars))) \X (0..Len(t)) :
      /\ c[2] <= RunLen(t, from + c[1], Whitespace)
      /\ UnitsAt(t, from + c[1] + c[2]) # {} }

\* first index after the first alternative of UNIT_RE that matches at at
UnitEnd(t, at) == at + UnitWidth(Min(UnitsAt(t, at)))

\* the match for the pair c: <<group(1), group(0), first index after it>>
NumUnitMatch(t, from, c) ==
  << SubSeq(t, from, from + c[1] - 1),
     SubSeq(t, from, UnitEnd(t, from + c[1] + c[2]) - 1),
     UnitEnd(t, from + c[1] + c[2]) >>

\* (\d[\d\.,]*)\s*UNIT anchored at from: <<group(1), group(0), first index
\* after the match>>, or <<>>.  The quantifiers are greedy and give
\* characters back: the longest number, then the longest blank run, after
\* which an alternative of UNIT_RE matches; the first such alternative.
MatchNumUnit(t, from) ==
  IF ~IsDigitAt(t, from) THEN <<>>
  ELSE IF NumUnitCands(t, from) = {} THEN <<>>
  ELSE NumUnitMatch(t, from, Greedy(NumUnitCands(t, from)))

\* UNIT\s*(\d[\d\.,]*) at from: the alternatives of UNIT_RE after which,
\* behind blanks, a digit stands
UnitNumCands(t, from) ==
  { k \in UnitsAt(t, from) :
      \E w \in 0..RunLen(t, from + UnitWidth(k), Whitespace) :
         IsDigitAt(t, from + UnitWidth(k) + w) }

\* the index of the digit behind the longest blank run at at
DigitAfter(t, at) ==
  at + Max({ x \in 0..RunLen(t, at, Whitespace) : IsDigitAt(t, at + x) })

\* first index after the number that starts at b
NumEnd(t, b) == b + 1 + RunLen(t, b + 1, NumChars)

\* the match whose number starts at b
UnitNumMatch(t, from, b) ==
  << SubSeq(t, b, NumEnd(t, b) - 1), SubSeq(t, from, NumEnd(t, b) - 1), NumEnd(t, b) >>

\* UNIT\s*(\d[\d\.,]*) anchored at from: <<group(1), group(0), first index
\* after the match>>, or <<>>.  The first alternative of UNIT_RE after
\* which, behind blanks, a digit stands.
MatchUnitNum(t, from) ==
  IF UnitNumCands(t, from) = {} THEN <<>>
  ELSE UnitNumMatch(t, from,
         DigitAfter(t, from + UnitWidth(Min(UnitNumCands(t, from)))))

\* the number as it is written appended to the mapped unit
CurrEntryAsWritten(num, unit_raw) == num \o CURRENCY_MAP(unit_raw)

\* str(int(num)) appended to the mapped unit: f"{numi}{unit}"
CurrEntry(num, unit_raw) ==
  StrInt(Without(num, NumChars \ Digits)) \o CURRENCY_MAP(unit_raw)

RECURSIVE FindNumUnit(_, _)
\* one round of the loop over re.finditer of the number-first pattern; m is
\* the match at from
NumUnitRound(t, from, m) ==
  IF m = <<>> THEN FindNumUnit(t, from + 1)
  ELSE << CurrEntry(m[1], Lower(Strip(SubSeq(m[2], Len(m[1]) + 1, Len(m[2]))))) >>
       \o FindNumUnit(t, m[3])

\* the loop over re.finditer of the number-first pattern
FindNumUnit(t, from) ==
  IF from > Len(t) + 1 THEN <<>> ELSE NumUnitRound(t, from, MatchNumUnit(t, from))

RECURSIVE FindUnitNum(_, _)
\* one round of the loop over re.finditer of the unit-first pattern
UnitNumRound(t, from, m) ==
  IF m = <<>> THEN FindUnitNum(t, from + 1)
  ELSE << CurrEntry(m[1], Lower(Strip(SubSeq(m[2], 1, Len(m[2]) - Len(m[1]))))) >>
       \o FindUnitNum(t, m[3])

\* the loop over re.finditer of the unit-first pattern
FindUnitNum(t, from) ==
  IF from > Len(t) + 1 THEN <<>> ELSE UnitNumRound(t, from, MatchUnitNum(t, from))

\* (\d{1,3})\s*% at from: the pairs <<a, w>> of a digits and w blanks after
\* which a percent sign stands
PctCands(t, from) ==
  { c \in (1..Min({3, 1 + RunLen(t, from + 1, Digits)})) \X (0..Len(t)) :
      /\ c[2] <= RunLen(t, from + c[1], Whitespace)
      /\ StartsAt(t, from + c[1] + c[2], <<"%">>) }

PctMatch(t, from, c) == << SubSeq(t, from, from + c[1] - 1), from + c[1] + c[2] + 1 >>

\* (\d{1,3})\s*% anchored at from: <<digits, first index after the match>>
MatchPct(t, from) ==
  IF ~IsDigitAt(t, from) THEN <<>>
  ELSE IF PctCands(t, from) = {} THEN <<>>
  ELSE PctMatch(t, from, Greedy(PctCands(t, from)))

RECURSIVE FindPct(_, _)
\* one round of re.findall over the percentage pattern
PctRound(t, from, m) ==
  IF m = <<>> THEN FindPct(t, from + 1)
  ELSE <<StrInt(m[1])>> \o FindPct(t, m[2])

\* re.findall over the percentage pattern, each group as str(int(p))
FindPct(t, from) ==
  IF from > Len(t) THEN <<>> ELSE PctRound(t, from, MatchPct(t, from))

SpinWords == << <<"s","p","i","n","s">>, <<"g","i","r","o","s">>,
                <<"t","i","r","a","d","a","s">> >>

\* free\s*spins at from: the blank runs after "free" behind which "spins"
\* stands
FreeGaps(t, from) ==
  { w \in 0..RunLen(t, from + 4, Whitespace) : StartsAt(t, from + 4 + w, SpinWords[1]) }

\* length of (?:free\s*spins|spins|giros|tiradas) standing at from, or 0
SpinWordLen(t, from) ==
  IF StartsAt(t, from, <<"f","r","e","e">>) /\ FreeGaps(t, from) # {}
    THEN 4 + Max(FreeGaps(t, from)) + 5
  ELSE IF \E k \in 1..3 : StartsAt(t, from, SpinWords[k])
    THEN Len(SpinWords[Min({ k \in 1..3 : StartsAt(t, from, SpinWords[k]) })])
  ELSE 0

\* (\d+)\s*(?:...) at from: the pairs <<a, w>> of a digits and w blanks
\* after which one of the words stands
SpinCands(t, from) ==
  { c \in (1..(1 + RunLen(t, from + 1, Digits))) \X (0..Len(t)) :
      /\ c[2] <= RunLen(t, from + c[1], Whitespace)
      /\ SpinWordLen(t, from + c[1] + c[2]) > 0 }

SpinMatch(t, from, c) ==
  << SubSeq(t, from, from + c[1] - 1),
     from + c[1] + c[2] + SpinWordLen(t, from + c[1] + c[2]) >>

\* (\d+)\s*(?:free\s*spins|spins|giros|tiradas) anchored at from
MatchSpins(t, from) ==
  IF ~IsDigitAt(t, from) THEN <<>>
  ELSE IF SpinCands(t, from) = {} THEN <<>>
  ELSE SpinMatch(t, from, Greedy(SpinCands(t, from)))

RECURSIVE FindSpins(_, _)
\* one round of re.findall over the free-spins pattern
SpinsRound(t, from, m) ==
  IF m = <<>> THEN FindSpins(t, from + 1)
  ELSE <<StrInt(m[1])>> \o FindSpins(t, m[2])

\* re.findall over the free-spins pattern, each group as str(int(s))
FindSpins(t, from) ==
  IF from > Len(t) THEN <<>> ELSE SpinsRound(t, from, MatchSpins(t, from))

\* the prefix and the values as they were found
FacetAsFound(prefix, values) == prefix \o Join(<<"+">>, values)

\* prefix + "+".join(sorted(set(values)))
Facet(prefix, values) == prefix \o Join(<<"+">>, SortedSet(Range(values)))

\* text = f"{amount} {description}".lower() without accents
AmountText(amount, description) ==
  DropCombining(NFKD(Lower(amount \o <<" ">> \o description)))

\* the list parts without the part of the amounts of money
KeyPartsNoAmount(pct, curr, spins) ==
  (IF pct # <<>> THEN << Facet(<<"p","c","t",":">>, pct) >> ELSE <<>>)
  \o (IF spins # <<>> THEN << Facet(<<"s","p","i","n","s",":">>, spins) >> ELSE <<>>)

\* the list parts for the three lists of findings
KeyParts(pct, curr, spins) ==
  (IF pct # <<>> THEN << Facet(<<"p","c","t",":">>, pct) >> ELSE <<>>)
  \o (IF curr # <<>> THEN << Facet(<<"a","m","t",":">>, curr) >> ELSE <<>>)
  \o (IF spins # <<>> THEN << Facet(<<"s","p","i","n","s",":">>, spins) >> ELSE <<>>)

\* "|".join(parts) for the text
AmountKey(text) ==
  Join(<<"|">>, KeyParts(FindPct(text, 1),
                         FindNumUnit(text, 1) \o FindUnitNum(text, 1),
                         FindSpins(text, 1)))

_parse_amount_key(amount, description) == AmountKey(AmountText(amount, description))

(***************************************************************************)
(* _semantic_signature                                                     *)
(***************************************************************************)
\* the keyword list of the condition hints, in the order of the loop
CondKeywords == <<
  <<"f","i","r","s","t"," ","d","e","p","o","s","i","t">>,
  <<"w","a","g","e","r","i","n","g">>,
  <<"c","r","y","p","t","o">>,
  <<"s","p","o","r","t","s">>,
  <<"r","e","g","i","s","t","r","a","t","i","o","n">>,
  <<"w","e","l","c","o","m","e"," ","b","o","n","u","s">> >>

\* the first keyword from index k on that the conditions hold, alone
CondTokensFirst(conditions, k) ==
  IF \E j \in k..Len(CondKeywords) : Contains(conditions, CondKeywords[j])
    THEN << CondKeywords[CHOOSE j \in k..Len(CondKeywords) :
              /\ Contains(conditions, CondKeywords[j])
              /\ \A h \in k..(j - 1) : ~Contains(conditions, CondKeywords[h])] >>
    ELSE <<>>

\* cond_tokens after the loop over the keywords from index k on
RECURSIVE CondTokens(_, _)
CondTokens(conditions, k) ==
  IF k > Len(CondKeywords) THEN <<>>
  ELSE (IF Contains(conditions, CondKeywords[k]) THEN <<CondKeywords[k]>> ELSE <<>>)
       \o CondTokens(conditions, k + 1)

\* a key that keeps its bars
StripBarsNone(s) == s

\* str.strip("|")
RECURSIVE StripBars(_)
StripBars(s) ==
  IF s # <<>> /\ Head(s) = "|" THEN StripBars(Tail(s))
  ELSE IF s # <<>> /\ s[Len(s)] = "|" THEN StripBars(SubSeq(s, 1, Len(s) - 1))
  ELSE s

\* a key of the exact texts of a record
_exact_signature(row) ==
  row.competitor \o <<"|">> \o row.country \o <<"|">> \o row.bonus_type
  \o <<"|">> \o row.bonus_amount \o <<"|">> \o row.description

\* "|".join([competitor, country, btype, amount_key, cond_key]).strip("|")
_semantic_signature(row) ==
  StripBars(Join(<<"|">>,
    << _normalize_text(row.competitor),
       Upper(row.country),
       _normalize_text(row.bonus_type),
       _parse_amount_key(row.bonus_amount, row.description),
       Join(<<"+">>, CondTokens(_normalize_text(row.conditions), 1)) >>))

(***************************************************************************)
(* The texts of the model                                                  *)
(***************************************************************************)
Rabona == <<"R","a","b","o","n","a">>

Betano == <<"B","e","t","a","n","o">>

AE == <<"A","E">>

BR == <<"B","R">>

WelcomeBonus == <<"W","e","l","c","o","m","e"," ","B","o","n","u","s">>

Countries == { AE, BR }

\* what the scraper extracts for a PromotionData; scraped_at and hash_id are
\* set when it is scraped
Extracted(competitor, country, title, bonus_amount, url) ==
  [competitor |-> competitor, country |-> country, title |-> title,
   description |-> <<>>, bonus_amount |-> bonus_amount,
   bonus_type |-> WelcomeBonus, conditions |-> <<>>, wagering |-> <<>>,
   valid_until |-> <<>>, url |-> url]

\* the promotions the scraper may find on any day
Scraped == {
  Extracted(Rabona, AE, <<"W","e","l","c","o","m","e">>, <<"$","1","0","0">>, <<"r",".","a","e">>),
  Extracted(Rabona, AE, <<"W","e","l","c","o","m","e">>, <<"€","2","0","0">>, <<"r",".","a","e">>),
  Extracted(Betano, BR, <<"B","o","n","o">>, <<"5","0","%">>, <<"b",".","b","r">>) }

\* hash_id = str(hash(f"{competitor.name}_{title}_{bonus_amount}_{bonus_type}")).
\* hash() of a str depends on the hash seed of the interpreter process
\* (PYTHONHASHSEED; random for each process unless it is set); two texts or
\* two seeds are taken never to collide.
hash_id(seed, p) == << seed, p.competitor, p.title, p.bonus_amount, p.bonus_type >>

\* PromotionData(..., scraped_at=current_time, hash_id=hash_id)
PromotionData(p, scraped_at, seed) ==
  [ f \in DOMAIN p \cup {"scraped_at", "hash_id"} |->
      IF f = "scraped_at" THEN scraped_at
      ELSE IF f = "hash_id" THEN hash_id(seed, p)
      ELSE p[f] ]

\* the JSON object of a DeepSeek answer that json.loads accepts and that is
\* not null
Parsed(title, description, bonus_amount, conditions, valid_until) ==
  [title |-> title, description |-> description, bonus_amount |-> bonus_amount,
   bonus_type |-> WelcomeBonus, conditions |-> conditions, wagering |-> <<>>,
   valid_until |-> valid_until]

\* the answer null, an answer that is not JSON, a failed request
Null == [null |-> TRUE]

\* the answers DeepSeek may give for any promotion
Answers == {
  Parsed(<<"W","e","l","c","o","m","e">>, <<>>, <<"$","1","0","0">>, <<>>, <<>>),
  Parsed(<<"W","e","l","c","o","m","e">>, <<>>, <<"€","2","0","0">>, <<>>, <<>>),
  Null }

\* the fields of a cleaned record but id, scraped_at and hash_id
Offer(competitor, country, title, description, bonus_amount, conditions, valid_until, url) ==
  [competitor |-> competitor, country |-> country, title |-> title,
   description |-> description, bonus_amount |-> bonus_amount,
   bonus_type |-> WelcomeBonus, conditions |-> conditions, wagering |-> <<>>,
   valid_until |-> valid_until, url |-> url]

\* the record of the literal scenario: Rabona, AE, Welcome Bonus, "$100"
Offer100 == Offer(Rabona, AE, <<"W","e","l","c","o","m","e">>, <<>>, <<"$","1","0","0">>, <<>>, <<>>, <<"r",".","a","e">>)

\* the same with bonus_amount "€200"
Offer200 == Offer(Rabona, AE, <<"W","e","l","c","o","m","e">>, <<>>, <<"€","2","0","0">>, <<>>, <<>>, <<"r",".","a","e">>)

\* the competitor in another case, conditions without a keyword, a
\* tracking URL
OfferTerms == Offer(<<"R","A","B","O","N","A">>, AE, <<"B","o","n","u","s">>, <<>>, <<"$","1","0","0">>, <<"1","8","+">>, <<>>, <<"r",".","a","e","?","a">>)

\* another competitor in another country
OfferBR == Offer(Betano, BR, <<"B","o","n","o">>, <<>>, <<"5","0","%">>, <<>>, <<>>, <<"b",".","b","r">>)

\* an offer without an amount, its conditions naming the wagering
OfferGet35x == Offer(Rabona, AE, <<"W","e","l","c","o","m","e">>, <<"G","e","t"," ","3","5","x"," ","w","a","g","e","r","i","n","g"," ","o","n"," ","y","o","u","r"," ","f","i","r","s","t"," ","d","e","p","o","s","i","t"," ","b","o","n","u","s">>, <<>>, <<"w","a","g","e","r","i","n","g">>, <<>>, <<"r",".","a","e">>)

\* the same offer in other words
OfferFirst35x == Offer(Rabona, AE, <<"W","e","l","c","o","m","e">>, <<"F","i","r","s","t"," ","d","e","p","o","s","i","t"," ","b","o","n","u","s"," ","U+2014"," ","w","a","g","e","r","i","n","g"," ","r","e","q","u","i","r","e","m","e","n","t"," ","3","5","x">>, <<>>, <<"w","a","g","e","r","i","n","g">>, <<>>, <<"r",".","a","e">>)

\* the offers of the stores the comparators are applied to
StoreOffers == { Offer100, Offer200, OfferTerms, OfferBR }

\* the offers of the lists _dedupe_by_signature is applied to
AllOffers ==
  StoreOffers \cup {
    \* Offer100 with a URL of the same length that holds a query marker
    Offer(Rabona, AE, <<"W","e","l","c","o","m","e">>, <<>>, <<"$","1","0","0">>, <<>>, <<>>, <<"r",".","a","?">>),
    \* Offer100 with a longer URL
    Offer(Rabona, AE, <<"W","e","l","c","o","m","e">>, <<>>, <<"$","1","0","0">>, <<>>, <<>>, <<"r",".","a","e","/">>),
    \* Offer100 with a valid_until that is one blank
    Offer(Rabona, AE, <<"W","e","l","c","o","m","e">>, <<>>, <<"$","1","0","0">>, <<>>, <<" ">>, <<"r",".","a","e">>),
    \* Offer100 with a description; the amount is no longer at the end of the
    \* text and the signature has no amount key
    Offer(Rabona, AE, <<"W","e","l","c","o","m","e">>, <<"h","i">>, <<"$","1","0","0">>, <<>>, <<>>, <<"r",".","a","e">>),
    \* the same with a shorter description padded with blanks to three
    \* characters
    Offer(Rabona, AE, <<"W","e","l","c","o","m","e">>, <<" ","h"," ">>, <<"$","1","0","0">>, <<>>, <<>>, <<"r",".","a","e">>) }

\* the offers with an empty field or a reworded description, and Offer100
EdgeOffers ==
  { Offer100, OfferGet35x, OfferFirst35x,
    \* Offer100 of a competitor without a name
    Offer(<<>>, AE, <<"W","e","l","c","o","m","e">>, <<>>, <<"$","1","0","0">>, <<>>, <<>>, <<"r",".","a","e">>),
    \* Offer100 without a title
    Offer(Rabona, AE, <<>>, <<>>, <<"$","1","0","0">>, <<>>, <<>>, <<"r",".","a","e">>) }

\* one hash_id for every row of a table
HashShared(id) == << 0 >>

\* hash_id of the row with the given id in a table built from offers: one
\* value for each row (the column is UNIQUE)
HashOf(id) == << id >>

\* the row of clean_promotions that holds an offer
OfferRow(offer, scraped_at, id) ==
  [ f \in DOMAIN offer \cup {"id", "scraped_at", "hash_id"} |->
      IF f = "id" THEN id
      ELSE IF f = "scraped_at" THEN scraped_at
      ELSE IF f = "hash_id" THEN HashOf(id)
      ELSE offer[f] ]

(***************************************************************************)
(* _choose_best and _dedupe_by_signature                                   *)
(***************************************************************************)
\* the fields of a row _semantic_signature reads
SignatureInput(row) ==
  [ f \in { "competitor", "country", "bonus_type", "bonus_amount",
            "description", "conditions" } |-> row[f] ]

\* the values of these fields that occur in the rows of the model
SignatureInputs ==
  { SignatureInput(o) : o \in AllOffers \cup EdgeOffers }
  \cup { SignatureInput(p) : p \in Scraped }
  \cup { [competitor |-> p.competitor, country |-> p.country,
          bonus_type |-> a.bonus_type, bonus_amount |-> a.bonus_amount,
          description |-> a.description, conditions |-> a.conditions] :
           p \in Scraped, a \in Answers \ {Null} }

\* _semantic_signature tabulated over these values, computed once
SignatureTable == { << x, _semantic_signature(x) >> : x \in SignatureInputs }

\* self._semantic_signature(r) for a row of the model
Signature(r) ==
  (CHOOSE entry \in SignatureTable : entry[1] = SignatureInput(r))[2]

\* Python's < on tuples of integers of equal length
RECURSIVE TupleLess(_, _)
TupleLess(a, b) ==
  IF a = <<>> THEN FALSE
  ELSE IF Head(a) = Head(b) THEN TupleLess(Tail(a), Tail(b))
  ELSE Head(a) < Head(b)

\* the key function score(r) of _choose_best
\* filled in score(r)
filled(r) ==
  Cardinality({ k \in {"bonus_amount", "conditions", "valid_until"} :
                  Strip(r[k]) # <<>> })

\* url_penalty in score(r)
url_penalty(r) == Count(r.url, "?") + Count(r.url, "&")

\* score(r) without the calls of strip()
scoreUntrimmed(r) ==
  << Cardinality({ k \in {"bonus_amount", "conditions", "valid_until"} : r[k] # <<>> }),
     Len(r.description), 0 - url_penalty(r), 0 - Len(r.url), 0 - r.id >>

\* (filled, desc_len, -url_penalty, -len(url), -r["id"])
score(r) ==
  << filled(r), Len(Strip(r.description)), 0 - url_penalty(r), 0 - Len(r.url),
     0 - r.id >>

\* the first record of the group instead of the best one
_choose_first(records) == records[1]

\* sorted(records, key=score, reverse=True)[0]: the sort is stable, so the
\* first record of the list that no record exceeds
_choose_best(records) ==
  records[Min({ i \in 1..Len(records) :
                  \A j \in 1..Len(records) :
                     ~TupleLess(score(records[i]), score(records[j])) })]

\* the signatures of the rows, in the order of the rows
Signatures(rows) == [ i \in 1..Len(rows) |-> Signature(rows[i]) ]

\* one key for every row instead of one for every signature
GroupKeysAll(sigs, seen) == sigs

\* the keys of groups in insertion order: the signatures by first occurrence
RECURSIVE GroupKeys(_, _)
GroupKeys(sigs, seen) ==
  IF sigs = <<>> THEN <<>>
  ELSE IF Head(sigs) \in seen THEN GroupKeys(Tail(sigs), seen)
  ELSE <<Head(sigs)>> \o GroupKeys(Tail(sigs), seen \cup {Head(sigs)})

\* groups[sig]: the rows of that signature in the order of the input
RECURSIVE Group(_, _, _)
Group(rows, sigs, sig) ==
  IF rows = <<>> THEN <<>>
  ELSE (IF Head(sigs) = sig THEN <<Head(rows)>> ELSE <<>>)
       \o Group(Tail(rows), Tail(sigs), sig)

\* [self._choose_best(g) for g in groups.values()]
BestOfGroups(rows, sigs, keys) ==
  [ i \in 1..Len(keys) |-> _choose_best(Group(rows, sigs, keys[i])) ]

\* the second statement of _dedupe_by_signature, for the signatures the
\* loop computed
DedupeGroups(rows, sigs) == BestOfGroups(rows, sigs, GroupKeys(sigs, {}))

_dedupe_by_signature(rows) == DedupeGroups(rows, Signatures(rows))

(***************************************************************************)
(* The tables and the calls                                                *)
(***************************************************************************)
VARIABLES
  promotions,          \* table promotions: the set of its rows
  clean_promotions,    \* table clean_promotions: the set of its rows
  comparison_results,  \* table comparison_results: its rows in id order
  today,               \* the date datetime.now() returns; a day number
  run,                 \* run_full_analysis: its country and its next step
  call,                \* the last call made and the value it returned
  reported             \* history: <<country, date, signature>> of every
                       \* record a semantic comparison returned as new

vars == << promotions, clean_promotions, comparison_results, today, run, call,
           reported >>

NoCall == [op |-> "none"]

NoRun == [step |-> "idle"]

\* the last day the clock reaches
MaxDay == 2

\* the longest list the scraper hands to insert_promotions
MaxBatch == 1

\* the most runs of run_full_analysis
MaxRuns == 2

\* the largest id clean_promotions hands out
MaxCleanId == 3

\* the most rows of a table or of a list the engine is applied to
MaxRows == 3

\* the most hash seeds the processes run with
MaxSeeds == 2

\* limit=100 of clean_latest_promotions
CleanLimit == 100

\* the calls of compare_with_previous_clean_semantic in one run: step 3 and
\* the three exports of step 4
ComparesPerRun == 4

Days == 1..MaxDay

\* the next value of an INTEGER PRIMARY KEY AUTOINCREMENT column; no row that
\* holds the largest id is ever deleted without a larger one being inserted
NextId(table) == IF table = {} THEN 1 ELSE Max({ r.id : r \in table }) + 1

\* the sequences that list every row of S once
Listings(S) ==
  { f \in [1..Cardinality(S) -> S] : \A i, j \in DOMAIN f : i # j => f[i] # f[j] }

\* ORDER BY competitor, title
ByCompetitorTitle(a, b) ==
  \/ StrLess(a.competitor, b.competitor)
  \/ a.competitor = b.competitor /\ StrLess(a.title, b.title)

\* the results SELECT ... ORDER BY competitor, title may return for the rows
\* S: every listing in which no row stands before one that the ORDER BY puts
\* first; rows it does not separate come in an order the engine chooses
OrderedByCompetitorTitle(S) ==
  { f \in Listings(S) : \A i, j \in DOMAIN f : i < j => ~ByCompetitorTitle(f[j], f[i]) }

\* the results SELECT ... ORDER BY scraped_at DESC may return for the rows S
OrderedByScrapedAtDesc(S) ==
  { f \in Listings(S) : \A i, j \in DOMAIN f : i < j => ~(f[j].scraped_at > f[i].scraped_at) }

\* the lists of at most n elements of S
RECURSIVE ListsUpTo(_, _)
ListsUpTo(S, n) ==
  IF n = 0 THEN { <<>> }
  ELSE ListsUpTo(S, n - 1)
       \cup { Append(l, x) : l \in { m \in ListsUpTo(S, n - 1) : Len(m) = n - 1 },
                             x \in S }

(***************************************************************************)
(* insert_promotions                                                       *)
(***************************************************************************)
\* the row UPDATE promotions SET ... WHERE hash_id = ? leaves for row r
UpdatedRow(r, promotion) ==
  [r EXCEPT !.title = promotion.title,
            !.description = promotion.description,
            !.bonus_amount = promotion.bonus_amount,
            !.bonus_type = promotion.bonus_type,
            !.conditions = promotion.conditions,
            !.wagering = promotion.wagering,
            !.valid_until = promotion.valid_until,
            !.url = promotion.url,
            !.scraped_at = promotion.scraped_at,
            !.is_active = 1]

\* the row INSERT INTO promotions (...) VALUES (...) adds
InsertedRow(promotion, id) ==
  [id |-> id,
   competitor |-> promotion.competitor, country |-> promotion.country,
   title |-> promotion.title, description |-> promotion.description,
   bonus_amount |-> promotion.bonus_amount, bonus_type |-> promotion.bonus_type,
   conditions |-> promotion.conditions, wagering |-> promotion.wagering,
   valid_until |-> promotion.valid_until, url |-> promotion.url,
   scraped_at |-> promotion.scraped_at, hash_id |-> promotion.hash_id,
   is_active |-> 1]

\* cursor.fetchone() of SELECT id FROM promotions WHERE hash_id = ?
Existing(table, promotion) == { r \in table : r.hash_id = promotion.hash_id }

\* one round of the loop of insert_promotions; acc holds the table and the
\* three counters
InsertRound(acc, promotion) ==
  IF Existing(acc.table, promotion) # {}
    THEN [acc EXCEPT
            !.table = (acc.table \ Existing(acc.table, promotion))
                      \cup { UpdatedRow(r, promotion) :
                               r \in Existing(acc.table, promotion) },
            !.updated_count = @ + 1]
    ELSE [acc EXCEPT
            !.table = @ \cup { InsertedRow(promotion, NextId(acc.table)) },
            !.new_count = @ + 1]

\* the loop of insert_promotions from the k-th promotion on
RECURSIVE InsertLoop(_, _, _)
InsertLoop(acc, batch, k) ==
  IF k > Len(batch) THEN acc
  ELSE InsertLoop(InsertRound(acc, batch[k]), batch, k + 1)

\* conn.commit() and return new_count, updated_count, duplicate_count
Inserted(done) ==
  /\ promotions' = done.table
  /\ call' = [op |-> "insert_promotions",
              result |-> << done.new_count, done.updated_count, done.duplicate_count >>]
  /\ UNCHANGED << clean_promotions, comparison_results, today, reported >>

insert_promotions(batch) ==
  Inserted(InsertLoop([table |-> promotions, new_count |-> 0,
                       updated_count |-> 0, duplicate_count |-> 0], batch, 1))

(***************************************************************************)
(* DeepSeekCleaner.clean_latest_promotions                                 *)
(***************************************************************************)
\* the dict promo after promo.update(parsed)
UpdatedPromo(promo, parsed) ==
  [promo EXCEPT !.title = parsed.title, !.description = parsed.description,
                !.bonus_amount = parsed.bonus_amount, !.bonus_type = parsed.bonus_type,
                !.conditions = parsed.conditions, !.wagering = parsed.wagering,
                !.valid_until = parsed.valid_until]

\* cleaned_promotions after the loop over promotions from the k-th on
RECURSIVE CleanedFrom(_, _, _)
CleanedFrom(promos, answer, k) ==
  IF k > Len(promos) THEN <<>>
  ELSE (IF answer[k] = Null THEN <<>> ELSE << UpdatedPromo(promos[k], answer[k]) >>)
       \o CleanedFrom(promos, answer, k + 1)

\* the row INSERT OR REPLACE INTO clean_promotions (...) VALUES (...) writes
CleanRow(cp, id) ==
  [id |-> id,
   competitor |-> cp.competitor, country |-> cp.country, title |-> cp.title,
   description |-> cp.description, bonus_amount |-> cp.bonus_amount,
   bonus_type |-> cp.bonus_type, conditions |-> cp.conditions,
   wagering |-> cp.wagering, valid_until |-> cp.valid_until, url |-> cp.url,
   scraped_at |-> cp.scraped_at, hash_id |-> cp.hash_id]

\* the loop of INSERT OR REPLACE from the k-th cleaned promotion on: the row
\* that holds the hash_id (UNIQUE) is deleted and a row with a fresh id added
RECURSIVE ReplaceLoop(_, _, _)
ReplaceLoop(table, cleaned, k) ==
  IF k > Len(cleaned) THEN table
  ELSE ReplaceLoop({ r \in table : r.hash_id # cleaned[k].hash_id }
                     \cup { CleanRow(cleaned[k], NextId(table)) },
                   cleaned, k + 1)

\* the INSERT OR REPLACE of every cleaned promotion, conn.commit() and
\* return len(cleaned_promotions)
SaveCleaned(cleaned) ==
  /\ NextId(clean_promotions) + Len(cleaned) - 1 <= MaxCleanId
  /\ clean_promotions' = ReplaceLoop(clean_promotions, cleaned, 1)
  /\ call' = [op |-> "clean_latest_promotions", result |-> Len(cleaned)]
  /\ UNCHANGED << promotions, comparison_results, today, reported >>

\* clean_latest_promotions once the SELECT has returned promos
CleanPromos(promos) ==
  IF promos = <<>>
    THEN /\ call' = [op |-> "clean_latest_promotions", result |-> 0]
         /\ UNCHANGED << promotions, clean_promotions, comparison_results,
                         today, reported >>
    ELSE \E answer \in [1..Len(promos) -> Answers] :
           SaveCleaned(CleanedFrom(promos, answer, 1))

\* clean_latest_promotions(limit=100); DeepSeek answers each promotion
clean_latest_promotions ==
  \E listing \in OrderedByScrapedAtDesc(promotions) :
    CleanPromos(SubSeq(listing, 1, IF Len(listing) < CleanLimit THEN Len(listing)
                                      ELSE CleanLimit))

(***************************************************************************)
(* compare_with_previous_clean_semantic and save_comparison_result         *)
(***************************************************************************)
\* a save that writes over the last row when it has the same date and country
save_latest_comparison_result(result) ==
  IF /\ comparison_results # <<>>
     /\ comparison_results[Len(comparison_results)].comparison_date = result.comparison_date
     /\ comparison_results[Len(comparison_results)].country = result.country
  THEN [comparison_results EXCEPT ![Len(comparison_results)] =
          [id |-> Len(comparison_results),
           comparison_date |-> result.comparison_date,
           country |-> result.country,
           total_new_promotions |-> result.new_count,
           total_updated_promotions |-> 0,
           total_removed_promotions |-> result.removed_count,
           competitors_analyzed |-> result.competitors_analyzed]]
  ELSE Append(comparison_results,
         [id |-> Len(comparison_results) + 1,
          comparison_date |-> result.comparison_date,
          country |-> result.country,
          total_new_promotions |-> result.new_count,
          total_updated_promotions |-> 0,
          total_removed_promotions |-> result.removed_count,
          competitors_analyzed |-> result.competitors_analyzed])

\* the table comparison_results after save_comparison_result(result)
save_comparison_result(result) ==
  Append(comparison_results,
         [id |-> Len(comparison_results) + 1,
          comparison_date |-> result.comparison_date,
          country |-> result.country,
          total_new_promotions |-> result.new_count,
          total_updated_promotions |-> 0,
          total_removed_promotions |-> result.removed_count,
          competitors_analyzed |-> result.competitors_analyzed])

\* [r for r in rows if self._semantic_signature(r) not in sigs]
RECURSIVE NotIn(_, _)
NotIn(rows, sigs) ==
  IF rows = <<>> THEN <<>>
  ELSE (IF Signature(Head(rows)) \notin sigs THEN <<Head(rows)>> ELSE <<>>)
       \o NotIn(Tail(rows), sigs)

\* prev_sigs = {self._semantic_signature(r) for r in prev_rows}
prev_sigs(prev_rows) == { Signature(prev_rows[i]) : i \in 1..Len(prev_rows) }

\* the dict result with the removed promotions computed from the signatures
ResultWithRemoved(country, current_date, today_unique, prev_rows, new_promos) ==
  [comparison_date |-> current_date,
   country |-> country,
   new_promotions |-> new_promos,
   removed_promotions |-> NotIn(prev_rows, prev_sigs(today_unique)),
   total_current |-> Len(today_unique),
   total_previous |-> Len(prev_rows),
   new_count |-> Len(new_promos),
   removed_count |-> Len(NotIn(prev_rows, prev_sigs(today_unique))),
   competitors_analyzed |-> { today_unique[i].competitor : i \in 1..Len(today_unique) }]

\* the dict result with the history counted by distinct signatures
ResultDistinctPrevious(country, current_date, today_unique, prev_rows, new_promos) ==
  [comparison_date |-> current_date,
   country |-> country,
   new_promotions |-> new_promos,
   removed_promotions |-> <<>>,
   total_current |-> Len(today_unique),
   total_previous |-> Cardinality(prev_sigs(prev_rows)),
   new_count |-> Len(new_promos),
   removed_count |-> 0,
   competitors_analyzed |-> { today_unique[i].competitor : i \in 1..Len(today_unique) }]

\* the dict result.  list(set) has no defined order: competitors_analyzed
\* is kept as the set.
Result(country, current_date, today_unique, prev_rows, new_promos) ==
  [comparison_date |-> current_date,
   country |-> country,
   new_promotions |-> new_promos,
   removed_promotions |-> <<>>,
   total_current |-> Len(today_unique),
   total_previous |-> Len(prev_rows),
   new_count |-> Len(new_promos),
   removed_count |-> 0,
   competitors_analyzed |-> { today_unique[i].competitor : i \in 1..Len(today_unique) }]

\* the result for the deduplicated batch of today
ResultOfUnique(country, current_date, today_unique, prev_rows) ==
  Result(country, current_date, today_unique, prev_rows,
         NotIn(today_unique, prev_sigs(prev_rows)))

\* the dict result of compare_with_previous_clean_semantic for the two lists
\* the queries returned
SemanticResult(country, current_date, today_rows, prev_rows) ==
  ResultOfUnique(country, current_date, _dedupe_by_signature(today_rows), prev_rows)

\* the query of today without the condition on the date
TodayBatchAnyDate(country, current_date) ==
  { r \in clean_promotions : r.country = country }

\* the query of today answered from the summary rows: nothing once a
\* comparison of that country and date has been saved
TodayBatchOnce(country, current_date) ==
  IF \E i \in 1..Len(comparison_results) :
       /\ comparison_results[i].country = country
       /\ comparison_results[i].comparison_date = current_date
  THEN {}
  ELSE { r \in clean_promotions : r.country = country /\ r.scraped_at = current_date }

\* TodayBatch without the condition on the country
TodayBatchAnyCountry(country, current_date) ==
  { r \in clean_promotions : r.scraped_at = current_date }

\* SELECT * FROM clean_promotions WHERE country = ? AND date(scraped_at) = date(?)
TodayBatch(country, current_date) ==
  { r \in clean_promotions : r.country = country /\ r.scraped_at = current_date }

\* HistoricalBatch with the comparison of the dates written as <> : every
\* record of another day counts as history
HistoricalBatchOtherDays(country, current_date) ==
  { r \in clean_promotions : r.country = country /\ r.scraped_at # current_date }

\* SELECT * FROM clean_promotions WHERE country = ? AND date(scraped_at) < date(?)
HistoricalBatch(country, current_date) ==
  { r \in clean_promotions : r.country = country /\ r.scraped_at < current_date }

\* self.save_comparison_result(result) and return result
Compared(country, current_date, today_rows, result) ==
  /\ comparison_results' = save_comparison_result(result)
  /\ call' = [op |-> "compare_with_previous_clean_semantic",
              country |-> country, current_date |-> current_date,
              today_rows |-> today_rows, result |-> result]
  /\ reported' = reported \cup
       { << country, current_date, Signature(result.new_promotions[i]) >> :
           i \in 1..Len(result.new_promotions) }
  /\ UNCHANGED << promotions, clean_promotions, today >>

compare_with_previous_clean_semantic(country, current_date) ==
  \E today_rows \in OrderedByCompetitorTitle(TodayBatch(country, current_date)),
     prev_rows \in OrderedByCompetitorTitle(HistoricalBatch(country, current_date)) :
    Compared(country, current_date, today_rows,
             SemanticResult(country, current_date, today_rows, prev_rows))

(***************************************************************************)
(* run_full_analysis, day after day                                        *)
(***************************************************************************)
\* the lists scrape_all_competitors(country) may return today in a process
\* with the given hash seed
ScrapedLists(country, seed) ==
  ListsUpTo({ PromotionData(p, today, seed) : p \in { q \in Scraped : q.country = country } },
            MaxBatch)

\* steps 1 and 2: the scraper returns promotions of the country, scraped
\* today, and insert_promotions stores them
StoreStep ==
  /\ run.step = "idle"
  /\ Len(comparison_results) < MaxRuns * ComparesPerRun
  /\ \E country \in Countries, seed \in 1..MaxSeeds :
       \E batch \in ScrapedLists(country, seed) :
         /\ insert_promotions(batch)
         /\ run' = [step |-> "clean", country |-> country, date |-> today,
                    compared |-> 0]

\* step 2.5
CleanStep ==
  /\ run.step = "clean"
  /\ clean_latest_promotions
  /\ run' = [run EXCEPT !.step = "compare"]

\* step 3 and the three exports of step 4, each of which calls
\* compare_with_previous_clean_semantic(country, today)
CompareStep ==
  /\ run.step = "compare"
  /\ compare_with_previous_clean_semantic(run.country, today)
  /\ run' = IF run.compared + 1 = ComparesPerRun THEN NoRun
            ELSE [run EXCEPT !.compared = @ + 1]

\* midnight: datetime.now() moves to the next day
Tick ==
  /\ today < MaxDay
  /\ today' = today + 1
  /\ UNCHANGED << promotions, clean_promotions, comparison_results, run, call,
                  reported >>

Init ==
  /\ promotions = {}
  /\ clean_promotions = {}
  /\ comparison_results = <<>>
  /\ today = 1
  /\ run = NoRun
  /\ call = NoCall
  /\ reported = {}

Next == StoreStep \/ CleanStep \/ CompareStep \/ Tick

Spec == Init /\ [][Next]_vars

(***************************************************************************)
(* The semantic comparator applied to the stores of at most MaxRows        *)
(* cleaned records: the comparison and the three exports that repeat it    *)
(***************************************************************************)
\* the raw row a cleaned row was made from when DeepSeek left it as it was
RawRow(r) == [ f \in DOMAIN r \cup {"is_active"} |-> IF f = "is_active" THEN 1 ELSE r[f] ]

\* the tables clean_promotions of n rows stored in the order of their dates:
\* ids (AUTOINCREMENT) and hash_ids (UNIQUE) are unique
StoresOf(n) ==
  { { OfferRow(offer[i], day[i], i) : i \in 1..n } :
      offer \in [1..n -> StoreOffers],
      day \in { d \in [1..n -> Days] : \A i, j \in 1..n : i < j => d[i] <= d[j] } }

InitStore ==
  /\ \E n \in 0..MaxRows : clean_promotions \in StoresOf(n)
  /\ promotions = { RawRow(r) : r \in clean_promotions }
  /\ comparison_results = <<>>
  /\ today = MaxDay
  /\ run = NoRun
  /\ call = NoCall
  /\ reported = {}

\* the comparison, for any country and any date
SemanticStep ==
  /\ run = NoRun
  /\ \E country \in Countries, current_date \in Days :
       /\ compare_with_previous_clean_semantic(country, current_date)
       /\ run' = [step |-> "export", country |-> country,
                  current_date |-> current_date, compared |-> 1]

\* an export, which makes the comparison again
ExportStep ==
  /\ run # NoRun
  /\ run.compared < ComparesPerRun
  /\ compare_with_previous_clean_semantic(run.country, run.current_date)
  /\ run' = [run EXCEPT !.compared = @ + 1]

NextStore == SemanticStep \/ ExportStep

SpecStore == InitStore /\ [][NextStore]_vars

(***************************************************************************)
(* The semantic comparator when sqlite3 raises: the method has no except   *)
(* clause, so the exception leaves it                                      *)
(***************************************************************************)
\* the handler that answers a failure with an empty result and saves it
ReturnedEmpty(country, current_date, at) ==
  /\ comparison_results' =
       save_comparison_result(Result(country, current_date, <<>>, <<>>, <<>>))
  /\ call' = [op |-> "compare_with_previous_clean_semantic",
              country |-> country, current_date |-> current_date,
              raised |-> at,
              result |-> Result(country, current_date, <<>>, <<>>, <<>>)]
  /\ UNCHANGED << promotions, clean_promotions, today, reported >>

\* sqlite3 raises in one of the two SELECTs (at = "read") or in
\* save_comparison_result (at = "save"): nothing is returned, and the
\* connection used as a context manager commits nothing
Raised(country, current_date, at) ==
  /\ call' = [op |-> "compare_with_previous_clean_semantic",
              country |-> country, current_date |-> current_date,
              raised |-> at]
  /\ UNCHANGED << promotions, clean_promotions, comparison_results, today,
                  reported >>

\* a comparison in which sqlite3 raises: the first one, or that of an export
FailedStep ==
  /\ run.step \in {"idle", "export"}
  /\ \E country \in Countries, current_date \in Days, at \in {"read", "save"} :
       /\ run.step = "export" => (country = run.country /\ current_date = run.current_date)
       /\ Raised(country, current_date, at)
       /\ run' = [step |-> "failed", country |-> country,
                  current_date |-> current_date, compared |-> ComparesPerRun]

NextFault == SemanticStep \/ FailedStep

SpecFault == InitStore /\ [][NextFault]_vars

(***************************************************************************)
(* _dedupe_by_signature applied to the lists of at most MaxRows cleaned    *)
(* records, and again to the same records in another order                 *)
(***************************************************************************)
\* the lists of n rows with the ids 1..n
RowLists(n) ==
  { [ i \in 1..n |-> OfferRow(offer[i], 1, i) ] :
      offer \in [1..n -> AllOffers] \cup [1..n -> EdgeOffers] }

\* the permutations of a list
Reorderings(rows) ==
  { [ i \in 1..Len(rows) |-> rows[f[i]] ] :
      f \in { g \in [1..Len(rows) -> 1..Len(rows)] :
                \A i, j \in 1..Len(rows) : i # j => g[i] # g[j] } }

\* the call _dedupe_by_signature(rows) and the list it returns
Deduped(rows, calls) ==
  /\ call' = [op |-> "_dedupe_by_signature", rows |-> rows,
              result |-> _dedupe_by_signature(rows), calls |-> calls]
  /\ UNCHANGED << promotions, clean_promotions, comparison_results, today, run,
                  reported >>

\* the first call, on any list
DedupeStep ==
  /\ call = NoCall
  /\ \E n \in 0..MaxRows : \E rows \in RowLists(n) : Deduped(rows, 1)

\* a second call, on the same records in any order
DedupeAgainStep ==
  /\ call # NoCall
  /\ call.calls = 1
  /\ \E rows \in Reorderings(call.rows) : Deduped(rows, 2)

NextDedupe == DedupeStep \/ DedupeAgainStep

SpecDedupe == Init /\ [][NextDedupe]_vars

(***************************************************************************)
(* _semantic_signature and _parse_amount_key applied to records and texts  *)
(***************************************************************************)
\* the records _semantic_signature is applied to: the offers with any date,
\* id and wagering, two offers with conditions that name keywords and
\* synonyms in several orders, and two records without competitor and
\* country
SignatureRows ==
  { [OfferRow(offer, scraped_at, id) EXCEPT !.wagering = wagering] :
      offer \in AllOffers \cup EdgeOffers, scraped_at \in Days, id \in 1..MaxRows,
      wagering \in { <<>>, <<"3","5","x">> } }
  \cup { [OfferRow(offer, 1, 1) EXCEPT !.conditions = conditions] :
      offer \in { Offer100, OfferGet35x }, conditions \in
      { <<"S","p","o","r","t","s"," ","a","n","d"," ","c","r","y","p","t","o"," ","a","f","t","e","r"," ","P","r","i","m","e","r"," ","D","e","p","ó","s","i","t","o">>,
        <<"D","e","p","o","r","t","e","s">>,
        <<"p","r","i","m","e","r"," ","d","e","p","ó","s","i","t","o">>,
        <<"w","a","g","e","r","i","n","g"," ","3","5","x"," ","o","n"," ","r","e","g","i","s","t","r","a","t","i","o","n">>,
        <<"B","o","n","o"," ","d","e"," ","B","i","e","n","v","e","n","i","d","a">>,
        <<"c","r","y","p","t","o"," ","p","a","r","a"," ","d","e","p","o","r","t","e","s">>,
        <<"W","e","l","c","o","m","e"," ","b","o","n","u","s",","," ","w","a","g","e","r","i","n","g",","," ","f","i","r","s","t"," ","t","i","m","e"," ","d","e","p","o","s","i","t">> } }
  \cup { [OfferRow(Offer100, 1, 1) EXCEPT !.competitor = <<>>, !.country = <<>>,
                                         !.bonus_type = <<"S","p","o","r","t","s">>, !.bonus_amount = <<>>],
          [OfferRow(Offer100, 1, 1) EXCEPT !.competitor = <<"S","p","o","r","t","s">>, !.country = <<>>,
                                         !.bonus_type = <<>>, !.bonus_amount = <<>>] }

\* the pairs (amount, description) _parse_amount_key is applied to: the
\* amounts that hold a unit of UNIT_LIST before or after a number, with and
\* without a blank between them, the numbers with and without thousands
\* separators before each unit, and the texts of the examples
AmountInputs ==
  { << amount, <<>> >> : amount \in
      { UNIT_LIST[i] \o sep \o <<"5","0">> : i \in 1..Len(UNIT_LIST), sep \in { <<>>, <<" ">> } }
      \cup { <<"5","0">> \o sep \o UNIT_LIST[i] : i \in 1..Len(UNIT_LIST), sep \in { <<>>, <<" ">> } } }
  \cup { << num \o <<" ">> \o UNIT_LIST[i], <<>> >> : i \in 1..Len(UNIT_LIST), num \in
      { <<"1",",","0","0","0">>, <<"1",".","0","0","0">>, <<"1","0","0","0">>, <<"2","5",",","0","0","0">>, <<"2","5",".","0","0","0">>, <<"2","5","0","0","0">> } }
  \cup { << <<"$","1","0","0">>, <<"b","o","n","u","s"," ","u","p"," ","t","o"," ","1","0","0"," ","U","S","D">> >>,
          << <<"1","0","0"," ","U","S","D">>, <<"b","o","n","u","s"," ","u","p"," ","t","o"," ","$","1","0","0">> >>,
          << <<"2","0","0"," ","U","S","D","T">>, <<>> >>,
          << <<"U","S","D","T","2","0","0">>, <<>> >>,
          << <<>>, <<"2","0","0","u","s","d","t"," ","c","a","s","h","b","a","c","k"," ","b","o","n","u","s">> >>,
          << <<"1",",","0","0","0"," ","e","u","r">>, <<>> >>,
          << <<"1","0","0","0"," ","e","u","r">>, <<>> >>,
          << <<"1","0","0">>, <<>> >>,
          << <<"5","0","%">>, <<"2","0"," ","g","i","r","o","s">> >>,
          << <<"1","0","0"," ","e","u","r">>, <<"5","0"," ","e","u","r"," ","o","r"," ","1","0","0"," ","e","u","r"," ","a","n","d"," ","5","0","%"," ","u","p"," ","t","o"," ","2","0"," ","f","r","e","e"," ","s","p","i","n","s">> >>,
          << <<>>, <<>> >> }

\* a call self._semantic_signature(row)
SignatureStep ==
  /\ call = NoCall
  /\ \E row \in SignatureRows :
       call' = [op |-> "_semantic_signature", row |-> row,
                result |-> _semantic_signature(row)]
  /\ UNCHANGED << promotions, clean_promotions, comparison_results, today, run,
                  reported >>

\* a call self._parse_amount_key(amount, description)
AmountStep ==
  /\ call = NoCall
  /\ \E input \in AmountInputs :
       call' = [op |-> "_parse_amount_key", amount |-> input[1],
                description |-> input[2],
                result |-> _parse_amount_key(input[1], input[2])]
  /\ UNCHANGED << promotions, clean_promotions, comparison_results, today, run,
                  reported >>

\* the texts _normalize_text is applied to: the synonym phrases in several
\* cases, with and without accents, composed and decomposed, and texts in
\* which a phrase is interrupted by a blank or a disallowed character
NormTexts ==
  { <<"P","r","i","m","e","r"," ","D","e","p","ó","s","i","t","o">>,
    <<"p","r","i","m","e","r"," ","d","e","p","o","s","i","t","o">>,
    <<"f","i","r","s","t"," ","d","e","p","o","s","i","t">>,
    <<"p","r","i","m","e","r"," ","d","e","p","o","U+0301","s","i","t","o">>,
    <<"P","R","I","M","E","R"," ","D","E","P","Ó","S","I","T","O">>,
    <<"p","r","i","m","e","r"," ","d","e","p","ó","s","i","t","o">>,
    <<"F","i","r","s","t"," ","D","e","p","o","s","i","t">>,
    <<"f","i","r","s","t"," "," ","t","i","m","e"," ","d","e","p","o","s","i","t">>,
    <<"f","i","r","s","t"," ","t","i","m","e"," ","d","e","p","o","s","i","t">>,
    <<"p","r","i","m","e","r","_","d","e","p","o","s","i","t","o">>,
    <<"D","e","p","o","r","t","e","s">>,
    <<"D","E","P","O","R","T","E","S">>,
    <<"d","e","p","o","r","t","e","s">>,
    <<"B","o","n","o"," ","d","e"," ","B","i","e","n","v","e","n","i","d","a">>,
    <<"b","o","n","o"," ","d","e"," ","b","i","e","n","v","e","n","i","d","a">>,
    <<"N","i","ñ","o">>,
    <<"n","i","n","o">>,
    <<"N","I","Ñ","O">>,
    <<"n","i","n","U+0303","o">>,
    <<" ","C","r","y","p","t","o"," ","p","a","r","a"," ","D","e","p","o","r","t","e","s"," ">>,
    <<"c","r","y","p","t","o"," ","p","a","r","a"," ","d","e","p","o","r","t","e","s">>,
    <<"W","a","g","e","r","i","n","g"," ","3","5","x">>,
    <<"w","a","g","e","r","i","n","g"," ","3","5","X">>,
    <<"É">>,
    <<"e">>,
    <<>> }

\* a call self._normalize_text(s)
NormalizeStep ==
  /\ call = NoCall
  /\ \E s \in NormTexts :
       call' = [op |-> "_normalize_text", s |-> s, result |-> _normalize_text(s)]
  /\ UNCHANGED << promotions, clean_promotions, comparison_results, today, run,
                  reported >>

NextText == SignatureStep \/ AmountStep \/ NormalizeStep

SpecText == Init /\ [][NextText]_vars

(***************************************************************************)
(* The exact-hash comparators on any store, next to the semantic one       *)
(***************************************************************************)
\* {p['hash_id'] for p in rows}
HashesOf(rows) == { rows[i].hash_id : i \in 1..Len(rows) }

\* [p for p in rows if p['hash_id'] in hashes]
RECURSIVE WithHashIn(_, _)
WithHashIn(rows, hashes) ==
  IF rows = <<>> THEN <<>>
  ELSE (IF Head(rows).hash_id \in hashes THEN <<Head(rows)>> ELSE <<>>)
       \o WithHashIn(Tail(rows), hashes)

\* the dict result without the removed promotions
HashResultNothingRemoved(country, current_date, current_promotions, previous_promotions) ==
  [comparison_date |-> current_date,
   country |-> country,
   new_promotions |-> WithHashIn(current_promotions,
                        HashesOf(current_promotions) \ HashesOf(previous_promotions)),
   removed_promotions |-> <<>>,
   total_current |-> Len(current_promotions),
   total_previous |-> Len(previous_promotions),
   new_count |-> Len(WithHashIn(current_promotions,
                        HashesOf(current_promotions) \ HashesOf(previous_promotions))),
   removed_count |-> 0,
   competitors_analyzed |->
     { current_promotions[i].competitor : i \in 1..Len(current_promotions) }]

\* the dict result of the two exact-hash comparators: new_hashes =
\* current_hashes - previous_hashes, removed_hashes = previous_hashes -
\* current_hashes
HashResult(country, current_date, current_promotions, previous_promotions) ==
  [comparison_date |-> current_date,
   country |-> country,
   new_promotions |-> WithHashIn(current_promotions,
                        HashesOf(current_promotions) \ HashesOf(previous_promotions)),
   removed_promotions |-> WithHashIn(previous_promotions,
                            HashesOf(previous_promotions) \ HashesOf(current_promotions)),
   total_current |-> Len(current_promotions),
   total_previous |-> Len(previous_promotions),
   new_count |-> Len(WithHashIn(current_promotions,
                        HashesOf(current_promotions) \ HashesOf(previous_promotions))),
   removed_count |-> Len(WithHashIn(previous_promotions,
                            HashesOf(previous_promotions) \ HashesOf(current_promotions))),
   competitors_analyzed |->
     { current_promotions[i].competitor : i \in 1..Len(current_promotions) }]

\* compare_with_previous_clean: the two queries on clean_promotions, the
\* result, self.save_comparison_result(result) and return result
compare_with_previous_clean(country, current_date) ==
  \E current_promotions \in OrderedByCompetitorTitle(TodayBatch(country, current_date)),
     previous_promotions \in OrderedByCompetitorTitle(HistoricalBatch(country, current_date)) :
    /\ comparison_results' = save_comparison_result(
         HashResult(country, current_date, current_promotions, previous_promotions))
    /\ call' = [op |-> "compare_with_previous_clean",
                country |-> country, current_date |-> current_date,
                result |-> HashResult(country, current_date, current_promotions,
                                      previous_promotions)]
    /\ UNCHANGED << promotions, clean_promotions, today, reported >>

\* compare_with_previous: the two queries on promotions, the second one of
\* the active rows only; UPDATE promotions SET is_active = 0 WHERE hash_id IN
\* removed_hashes; the result, self.save_comparison_result and return
compare_with_previous(country, current_date) ==
  \E current_promotions \in OrderedByCompetitorTitle(
       { r \in promotions : r.country = country /\ r.scraped_at = current_date }),
     previous_promotions \in OrderedByCompetitorTitle(
       { r \in promotions : /\ r.country = country /\ r.scraped_at < current_date
                            /\ r.is_active = 1 }) :
    /\ promotions' =
         { IF r.hash_id \in HashesOf(previous_promotions) \ HashesOf(current_promotions)
             THEN [r EXCEPT !.is_active = 0] ELSE r : r \in promotions }
    /\ comparison_results' = save_comparison_result(
         HashResult(country, current_date, current_promotions, previous_promotions))
    /\ call' = [op |-> "compare_with_previous",
                country |-> country, current_date |-> current_date,
                result |-> HashResult(country, current_date, current_promotions,
                                      previous_promotions)]
    /\ UNCHANGED << clean_promotions, today, reported >>

\* a first or a second comparison of today with compare_with_previous_clean,
\* for any country
CleanHashStep ==
  /\ Len(comparison_results) < 2
  /\ \E country \in Countries : compare_with_previous_clean(country, today)
  /\ UNCHANGED run

\* a first or a second comparison of today with compare_with_previous
RawHashStep ==
  /\ Len(comparison_results) < 2
  /\ \E country \in Countries : compare_with_previous(country, today)
  /\ UNCHANGED run

\* a first or a second comparison of today with the semantic comparator
SemanticTodayStep ==
  /\ Len(comparison_results) < 2
  /\ \E country \in Countries : compare_with_previous_clean_semantic(country, today)
  /\ UNCHANGED run

NextHash == CleanHashStep \/ RawHashStep \/ SemanticTodayStep

SpecHash == InitStore /\ [][NextHash]_vars

(***************************************************************************)
(* Properties of the semantic comparison                                   *)
(***************************************************************************)
\* the last call was compare_with_previous_clean_semantic
IsSemantic == call.op = "compare_with_previous_clean_semantic"

\* the cleaned records of the country of the last comparison dated its date
StoredToday ==
  { r \in clean_promotions :
      r.country = call.country /\ r.scraped_at = call.current_date }

\* the cleaned records of that country dated strictly earlier
StoredEarlier ==
  { r \in clean_promotions :
      r.country = call.country /\ r.scraped_at < call.current_date }

\* the signatures of the records of StoredEarlier
EarlierSignatures == { Signature(h) : h \in StoredEarlier }

\* r is not a record of the history by its signature
Unseen(r) == Signature(r) \notin EarlierSignatures

\* C1: the comparison returns as new_promotions exactly the records of
\* dedupe(today's batch) whose signature is not the signature of a record of
\* the historical batch, in the order of the dedupe output; today's batch
\* is the records of the country dated as_of_date, the historical batch
\* those dated strictly earlier, not deduplicated.
C1_NewPromotions ==
  IsSemantic =>
    /\ Range(call.today_rows) = StoredToday
    /\ Len(call.today_rows) = Cardinality(StoredToday)
    /\ call.result.new_promotions
         = SelectSeq(_dedupe_by_signature(call.today_rows), Unseen)

\* a comparison that returned a record as new and kept another one of the
\* deduplicated batch back because the history holds its signature
C1_Witness ==
  /\ IsSemantic
  /\ call.result.new_count >= 1
  /\ call.result.new_count < call.result.total_current
  /\ call.result.total_previous >= 1

\* the position of the run a row of comparison_results was written in
RunOf(i) == (i - 1) \div ComparesPerRun

\* the runs so far were made for one country, each within one day, on
\* strictly increasing dates
RunsOnIncreasingDates ==
  /\ \A i, j \in 1..Len(comparison_results) :
       /\ comparison_results[i].country = comparison_results[j].country
       /\ RunOf(i) = RunOf(j) =>
            comparison_results[i].comparison_date = comparison_results[j].comparison_date
       /\ RunOf(i) < RunOf(j) =>
            comparison_results[i].comparison_date < comparison_results[j].comparison_date
  /\ run # NoRun => run.date = today

\* C2: across pipeline runs (insert, clean, semantic compare) on strictly
\* increasing dates for one country, a signature is reported as new at most
\* once: no two comparisons with different dates reported a record of the
\* same signature as new.
C2_ReportedOnce ==
  RunsOnIncreasingDates =>
    \A a, b \in reported : (a[1] = b[1] /\ a[3] = b[3]) => a[2] = b[2]

\* the store of the literal scenario: the record of "$100" dated day 1 and
\* day 2 and the record of "€200" dated day 2
ScenarioStore ==
  \E a, b, c \in 1..3 :
    clean_promotions = { OfferRow(Offer100, 1, a), OfferRow(Offer100, 2, b),
                         OfferRow(Offer200, 2, c) }

\* the comparison of day 2 was made for the store of the scenario
C6_Witness ==
  /\ IsSemantic
  /\ call.country = AE
  /\ call.current_date = 2
  /\ Cardinality(clean_promotions) = 3
  /\ ScenarioStore

\* C6: with the record Rabona, AE, Welcome Bonus, "$100" stored on day 1 and
\* a batch of day 2 that holds the same record and one that differs only by
\* the amount "€200", the comparison of day 2 returns exactly the record of
\* "€200" as new and new_count = 1.
C6_Scenario ==
  C6_Witness =>
    /\ call.result.new_count = 1
    /\ Len(call.result.new_promotions) = 1
    /\ call.result.new_promotions[1] \in StoredToday
    /\ call.result.new_promotions[1].bonus_amount = <<"€","2","0","0">>

\* the keys of a result of the comparison
ResultKeys ==
  { "comparison_date", "country", "new_promotions", "removed_promotions",
    "total_current", "total_previous", "new_count", "removed_count",
    "competitors_analyzed" }

\* C7: when the store holds no record of the country dated as_of_date, the
\* comparison returns a well-formed result with new_promotions = [],
\* new_count = 0 and total_current = 0, whatever the history contains.
C7_EmptyToday ==
  (IsSemantic /\ StoredToday = {}) =>
    /\ DOMAIN call.result = ResultKeys
    /\ call.result.comparison_date = call.current_date
    /\ call.result.country = call.country
    /\ call.result.new_promotions = <<>>
    /\ call.result.new_count = 0
    /\ call.result.total_current = 0

\* a comparison for a date without records while the history holds some
C7_Witness ==
  /\ IsSemantic
  /\ StoredToday = {}
  /\ StoredEarlier # {}
  /\ call.result.total_previous >= 1

\* C8: every result of the semantic comparator has removed_promotions = []
\* and removed_count = 0, also when signatures of the history are absent
\* from the batch of today.
C8_NothingRemoved ==
  IsSemantic =>
    /\ call.result.removed_promotions = <<>>
    /\ call.result.removed_count = 0

\* a comparison whose history holds a signature that no record of today has
C8_Witness ==
  /\ IsSemantic
  /\ StoredToday # {}
  /\ \E h \in StoredEarlier : \A r \in StoredToday : Signature(r) # Signature(h)

\* C9: in every result new_count = len(new_promotions), total_current is
\* the number of deduplicated records of the batch of today, total_previous
\* the number of raw records of the history, and competitors_analyzed the set
\* of the competitor names of the deduplicated batch of today.
C9_Counts ==
  IsSemantic =>
    /\ call.result.new_count = Len(call.result.new_promotions)
    /\ call.result.total_current = Cardinality({ Signature(r) : r \in StoredToday })
    /\ call.result.total_current = Len(_dedupe_by_signature(call.today_rows))
    /\ call.result.total_previous = Cardinality(StoredEarlier)
    /\ call.result.competitors_analyzed
         = { r.competitor : r \in Range(_dedupe_by_signature(call.today_rows)) }

\* a comparison whose history holds two records of one signature
C9_Witness ==
  /\ IsSemantic
  /\ call.result.total_current >= 1
  /\ Cardinality(StoredEarlier) > Cardinality(EarlierSignatures)

\* C10: a call of the semantic comparator appends exactly one row to
\* comparison_results, leaves the rows that were there as they were, and
\* leaves the tables promotions and clean_promotions unchanged.
C10_AppendsOneRow ==
  [][ call'.op = "compare_with_previous_clean_semantic" =>
        /\ Len(comparison_results') = Len(comparison_results) + 1
        /\ SubSeq(comparison_results', 1, Len(comparison_results)) = comparison_results
        /\ promotions' = promotions
        /\ clean_promotions' = clean_promotions ]_vars

\* a second comparison was saved for a store that holds records
C10_Witness ==
  /\ IsSemantic
  /\ Len(comparison_results) >= 2
  /\ clean_promotions # {}
  /\ promotions # {}

(***************************************************************************)
(* Properties of _dedupe_by_signature and _choose_best                     *)
(***************************************************************************)
\* the last call was _dedupe_by_signature
IsDedupe == call.op = "_dedupe_by_signature"

\* the signatures of the rows of the last call
InputSignatures == { Signature(r) : r \in Range(call.rows) }

\* C3: _dedupe_by_signature returns exactly one record for every signature
\* of the input: as many records as the input has distinct signatures, with
\* pairwise distinct signatures, each of them an element of the input.
C3_OnePerSignature ==
  IsDedupe =>
    /\ Len(call.result) = Cardinality(InputSignatures)
    /\ \A i, j \in 1..Len(call.result) :
         i # j => Signature(call.result[i]) # Signature(call.result[j])
    /\ \A i \in 1..Len(call.result) : call.result[i] \in Range(call.rows)

\* a call on a list with two records of one signature and a record of
\* another one
C3_Witness ==
  /\ IsDedupe
  /\ Len(call.result) >= 2
  /\ Len(call.result) < Len(call.rows)

\* the number of the three fields that are not the empty text
NonEmptyFields(r) ==
  Cardinality({ k \in {"bonus_amount", "conditions", "valid_until"} : r[k] # <<>> })

\* the number of the three fields that hold more than whitespace
NonBlankFields(r) ==
  Cardinality({ k \in {"bonus_amount", "conditions", "valid_until"} :
                  \E i \in 1..Len(r[k]) : r[k][i] \notin Whitespace })

\* the number of '?' and '&' in the url
Markers(r) == Cardinality({ i \in 1..Len(r.url) : r.url[i] \in {"?", "&"} })

\* a beats b in the order of the claim on the url and the id
BeatsByUrlOrId(a, b) ==
  \/ Markers(a) < Markers(b)
  \/ /\ Markers(a) = Markers(b)
     /\ \/ Len(a.url) < Len(b.url)
        \/ Len(a.url) = Len(b.url) /\ a.id < b.id

\* a beats b: more non-empty fields, then the longer description, then the
\* url and the id
BeatsLiterally(a, b) ==
  \/ NonEmptyFields(a) > NonEmptyFields(b)
  \/ /\ NonEmptyFields(a) = NonEmptyFields(b)
     /\ \/ Len(a.description) > Len(b.description)
        \/ Len(a.description) = Len(b.description) /\ BeatsByUrlOrId(a, b)

\* a beats b: more fields that hold more than whitespace, then the longer
\* description without the whitespace around it, then the url and the id
BeatsTrimmed(a, b) ==
  \/ NonBlankFields(a) > NonBlankFields(b)
  \/ /\ NonBlankFields(a) = NonBlankFields(b)
     /\ \/ Len(Strip(a.description)) > Len(Strip(b.description))
        \/ /\ Len(Strip(a.description)) = Len(Strip(b.description))
           /\ BeatsByUrlOrId(a, b)

\* C4 as stated: in every group of one signature the record returned beats
\* every other record of the group in the order (1) more non-empty fields
\* among bonus_amount, conditions, valid_until, (2) longer description, (3)
\* fewer '?' and '&' in the url, (4) shorter url, (5) lower id.
C4_Literal ==
  IsDedupe =>
    \A i \in 1..Len(call.result) : \A r \in Range(call.rows) :
      (Signature(r) = Signature(call.result[i]) /\ r # call.result[i])
        => BeatsLiterally(call.result[i], r)

\* C4 amended: the record returned beats every other record of its group
\* in the order in which a field counts when it holds more than whitespace
\* and the description is measured without the whitespace around it.
C4_Trimmed ==
  IsDedupe =>
    \A i \in 1..Len(call.result) : \A r \in Range(call.rows) :
      (Signature(r) = Signature(call.result[i]) /\ r # call.result[i])
        => BeatsTrimmed(call.result[i], r)

\* a group in which the two orders disagree, and the record returned
C4_Witness ==
  /\ IsDedupe
  /\ \E i \in 1..Len(call.result) : \E r \in Range(call.rows) :
       /\ Signature(r) = Signature(call.result[i])
       /\ BeatsTrimmed(call.result[i], r)
       /\ BeatsLiterally(r, call.result[i])

\* C5: for a list of records with pairwise distinct ids and any permutation
\* of it, the identity included, _dedupe_by_signature returns the same set
\* of records.
C5_OrderIndependent ==
  [][ ( /\ IsDedupe
        /\ call'.op = "_dedupe_by_signature"
        /\ \A i, j \in 1..Len(call.rows) : i # j => call.rows[i].id # call.rows[j].id
        /\ Len(call'.rows) = Len(call.rows)
        /\ Range(call'.rows) = Range(call.rows) )
      => Range(call'.result) = Range(call.result) ]_vars

\* a second call on the records in another order, with a group of two
C5_Witness ==
  /\ IsDedupe
  /\ call.calls = 2
  /\ Len(call.result) < Len(call.rows)
  /\ \E i \in 1..Len(call.rows) : call.rows[i].id # i

(***************************************************************************)
(* Properties of the record store                                          *)
(***************************************************************************)
\* C11: two calls of the semantic comparison with the same country and date
\* and no record written in between return the same new promotions, the
\* same counts and the same competitors_analyzed, however many summary rows
\* were appended; when the store hands over the rows of today in the same
\* order the whole result is the same.
C11_Reproducible ==
  [][ ( /\ IsSemantic
        /\ call'.op = "compare_with_previous_clean_semantic"
        /\ call'.country = call.country
        /\ call'.current_date = call.current_date
        /\ promotions' = promotions
        /\ clean_promotions' = clean_promotions )
      => /\ Range(call'.result.new_promotions) = Range(call.result.new_promotions)
         /\ call'.result.new_count = call.result.new_count
         /\ call'.result.removed_count = call.result.removed_count
         /\ call'.result.total_current = call.result.total_current
         /\ call'.result.total_previous = call.result.total_previous
         /\ call'.result.competitors_analyzed = call.result.competitors_analyzed
         /\ call'.today_rows = call.today_rows => call'.result = call.result ]_vars

\* the fourth comparison of a run returned a new promotion and the history
\* is not empty
C11_Witness ==
  /\ IsSemantic
  /\ Len(comparison_results) = ComparesPerRun
  /\ call.result.new_count >= 1
  /\ call.result.total_previous >= 1

\* the fields of a promotion record
PromotionFields ==
  { "competitor", "country", "title", "description", "bonus_amount",
    "bonus_type", "conditions", "wagering", "valid_until", "url", "scraped_at",
    "hash_id" }

\* the table still holds record r: a row with the same scraped_at and the
\* same values of the fields
StillIn(r, table) == \E q \in table : \A f \in PromotionFields : q[f] = r[f]

\* C12: the record history is append-only: a record of promotions or of
\* clean_promotions is still there after every operation, with the same
\* scraped_at and the same values of the fields.
C12_AppendOnly ==
  [][ /\ \A r \in promotions : StillIn(r, promotions')
      /\ \A r \in clean_promotions : StillIn(r, clean_promotions') ]_vars

\* C13: a record with an empty competitor, country or title is excluded
\* from the grouping: it never appears in the output of
\* _dedupe_by_signature.
C13_EmptyExcluded ==
  IsDedupe =>
    \A i \in 1..Len(call.result) :
      /\ call.result[i].competitor # <<>>
      /\ call.result[i].country # <<>>
      /\ call.result[i].title # <<>>

\* C14: when a read of the store or the write of the summary row fails
\* during a semantic comparison, the call ends in the error and returns no
\* result; when the read fails no summary row is appended.
C14_FailurePropagates ==
  [][ ( /\ call' # call
        /\ call'.op = "compare_with_previous_clean_semantic"
        /\ "raised" \in DOMAIN call' )
      => /\ "result" \notin DOMAIN call'
         /\ call'.raised = "read" => comparison_results' = comparison_results ]_vars

\* the read failed in the comparison of an export, after a comparison that
\* had saved its row, for a store that holds records of that day
C14_Witness ==
  /\ run.step = "failed"
  /\ call.raised = "read"
  /\ Len(comparison_results) = 1
  /\ \E r \in clean_promotions :
       r.country = call.country /\ r.scraped_at = call.current_date


IsSignature == call.op = "_semantic_signature"

\* the positions of a text that hold another character than the bar
NonBars(s) == { i \in 1..Len(s) : s[i] # "|" }

\* a text without its leading and trailing bars
Core(s) ==
  IF NonBars(s) = {} THEN <<>>
  ELSE SubSeq(s, CHOOSE i \in NonBars(s) : \A j \in NonBars(s) : i <= j,
                 CHOOSE i \in NonBars(s) : \A j \in NonBars(s) : j <= i)

\* the key of the condition tokens of a record
CondKey(x) == Join(<<"+">>, CondTokens(_normalize_text(x.conditions), 1))

\* the bar-joined components of the six fields of a record
Composed(x) ==
  _normalize_text(x.competitor) \o <<"|">> \o Upper(x.country) \o <<"|">>
  \o _normalize_text(x.bonus_type) \o <<"|">>
  \o _parse_amount_key(x.bonus_amount, x.description) \o <<"|">> \o CondKey(x)

\* C15: the signature of a record is normalize(competitor), upper(country),
\* normalize(bonus_type), the amount key of bonus_amount and description and
\* the condition key, joined with bars and without leading and trailing
\* bars; it is a function of these six fields alone, whatever title, url,
\* wagering, valid_until, scraped_at, hash_id and id hold.
C15_SignatureComposed ==
  IsSignature => call.result = Core(Composed(SignatureInput(call.row)))

\* a record with title, url, wagering and id, with an amount key and without
\* a condition token, has received its signature
C15_Witness ==
  /\ IsSignature
  /\ call.row.title # <<>> /\ call.row.url # <<>> /\ call.row.wagering # <<>>
  /\ call.row.id > 1 /\ call.row.scraped_at > 1
  /\ _parse_amount_key(call.row.bonus_amount, call.row.description) # <<>>
  /\ CondKey(call.row) = <<>>
  /\ call.result # <<>>


\* C16: a signature never starts or ends with a bar and never holds two
\* consecutive bars, also when the amount key is empty while a condition
\* token is present.
C16_NoEmptyFacet ==
  IsSignature =>
    /\ call.result # <<>> => (Head(call.result) # "|" /\ call.result[Len(call.result)] # "|")
    /\ \A i \in 1..(Len(call.result) - 1) :
         ~(call.result[i] = "|" /\ call.result[i + 1] = "|")


\* the records whose bonus_amount and description yield no amount key
Amountless ==
  { x \in SignatureInputs : _parse_amount_key(x.bonus_amount, x.description) = <<>> }

\* the condition key of each record
CondKeys == [ x \in SignatureInputs |-> CondKey(x) ]

\* two records of one competitor, country and bonus_type, with the same
\* condition tokens and without an amount key
Reworded(r, q) ==
  /\ SignatureInput(r) \in Amountless /\ SignatureInput(q) \in Amountless
  /\ r.competitor = q.competitor /\ r.country = q.country
  /\ r.bonus_type = q.bonus_type
  /\ CondKeys[SignatureInput(r)] = CondKeys[SignatureInput(q)]

\* the key of competitor, country and bonus_type alone
IdentityKey(r) ==
  Core(_normalize_text(r.competitor) \o <<"|">> \o Upper(r.country) \o <<"|">>
       \o _normalize_text(r.bonus_type))

\* C17: two records of one competitor, country and bonus_type whose
\* conditions yield the same condition tokens and whose texts yield no
\* amount key have the same signature, however their descriptions are
\* worded, and _dedupe_by_signature returns exactly one record for them;
\* without a condition token the signature is that of competitor, country
\* and bonus_type alone.
C17_RewordedCollapse ==
  IsDedupe =>
    \A i, j \in 1..Len(call.rows) :
      Reworded(call.rows[i], call.rows[j]) =>
        /\ Signature(call.rows[i]) = Signature(call.rows[j])
        /\ Cardinality({ k \in 1..Len(call.result) :
                           Signature(call.result[k]) = Signature(call.rows[i]) }) = 1
        /\ CondKeys[SignatureInput(call.rows[i])] = <<>> =>
             Signature(call.rows[i]) = IdentityKey(call.rows[i])

\* the two wordings of the first deposit offer were given in one list and one
\* record was returned
C17_Witness ==
  /\ IsDedupe
  /\ \E i, j \in 1..Len(call.rows) :
       /\ call.rows[i].description = OfferGet35x.description
       /\ call.rows[j].description = OfferFirst35x.description
       /\ Reworded(call.rows[i], call.rows[j])
  /\ Len(call.rows) = 2
  /\ Len(call.result) = 1


IsAmount == call.op = "_parse_amount_key"

\* C18: _parse_amount_key("$100", "bonus up to 100 USD") and
\* _parse_amount_key("100 USD", "bonus up to $100") are both "amt:100usd".
C18_SymbolAndCode ==
  IsAmount =>
    /\ (call.amount = <<"$","1","0","0">> /\ call.description = <<"b","o","n","u","s"," ","u","p"," ","t","o"," ","1","0","0"," ","U","S","D">>)
         => call.result = <<"a","m","t",":","1","0","0","u","s","d">>
    /\ (call.amount = <<"1","0","0"," ","U","S","D">> /\ call.description = <<"b","o","n","u","s"," ","u","p"," ","t","o"," ","$","1","0","0">>)
         => call.result = <<"a","m","t",":","1","0","0","u","s","d">>

\* the numbers written next to a unit
Numbers == { <<"5","0">>, <<"2","0","0">> }

\* the blank or nothing between a number and a unit
Gaps == { <<>>, <<" ">> }

\* C19: the amount key does not depend on whether a currency token stands
\* before or after its number: for every unit u of UNIT_LIST and number n
\* the key of the text "u n" is the key of "n u"; "200 USDT" and "USDT200"
\* have the same key.
C19_UnitPosition ==
  IsAmount /\ call.description = <<>> =>
    /\ \A i \in 1..Len(UNIT_LIST), n \in Numbers, gap \in Gaps :
         call.amount = UNIT_LIST[i] \o gap \o n
           => call.result = _parse_amount_key(n \o gap \o UNIT_LIST[i], <<>>)
    /\ call.amount = <<"U","S","D","T","2","0","0">>
         => call.result = _parse_amount_key(<<"2","0","0"," ","U","S","D","T">>, <<>>)


\* the positions of a text that hold a separator
Cuts(s, sep) == { i \in 1..Len(s) : s[i] = sep }

\* the pieces of a text between the occurrences of a separator
RECURSIVE Split(_, _)
Split(s, sep) ==
  IF Cuts(s, sep) = {} THEN { s }
  ELSE { SubSeq(s, 1, (CHOOSE i \in Cuts(s, sep) : \A j \in Cuts(s, sep) : i <= j) - 1) }
       \cup Split(SubSeq(s, (CHOOSE i \in Cuts(s, sep) : \A j \in Cuts(s, sep) : i <= j) + 1, Len(s)), sep)

\* the entries of the amt facet of an amount key
AmtEntries(key) ==
  UNION { Split(SubSeq(facet, 5, Len(facet)), "+") :
            facet \in { f \in Split(key, "|") : Len(f) >= 4 /\ SubSeq(f, 1, 4) = <<"a","m","t",":">> } }

\* the canonical currency codes
CanonicalCodes == { <<"e","u","r">>, <<"u","s","d">>, <<"g","b","p">>, <<"u","s","d","t">>, <<"a","e","d">>, <<"z","a","r">>, <<"b","r","l">> }

\* an integer followed by a canonical currency code
IsMoney(entry) ==
  \E k \in 1..(Len(entry) - 1) :
    /\ \A i \in 1..k : entry[i] \in Digits
    /\ SubSeq(entry, k + 1, Len(entry)) \in CanonicalCodes

\* C20: every entry of the amt facet of an amount key is an integer followed
\* by one of the codes eur, usd, gbp, usdt, aed, zar, brl; a number without a
\* currency token next to it, such as a bare number at the end of the text,
\* contributes no entry.
C20_CanonicalEntries ==
  IsAmount =>
    /\ \A entry \in AmtEntries(call.result) : IsMoney(entry)
    /\ (call.amount = <<"1","0","0">> /\ call.description = <<>>) => call.result = <<>>


\* the texts of a set in ascending order with "+" between them
RECURSIVE Ascending(_)
Ascending(S) ==
  IF S = {} THEN <<>>
  ELSE IF Cardinality(S) = 1 THEN CHOOSE x \in S : TRUE
  ELSE (CHOOSE x \in S : \A y \in S \ {x} : StrLess(x, y)) \o <<"+">>
       \o Ascending(S \ { CHOOSE x \in S : \A y \in S \ {x} : StrLess(x, y) })

\* the facet of a set of values, nothing for no value
FacetOf(prefix, S) == IF S = {} THEN <<>> ELSE prefix \o Ascending(S)

\* two texts with a bar between them when neither is empty
Barred(a, b) == IF a = <<>> THEN b ELSE IF b = <<>> THEN a ELSE a \o <<"|">> \o b

\* the key of the findings in a text
KeyOfFindings(text) ==
  Barred(Barred(FacetOf(<<"p","c","t",":">>, Range(FindPct(text, 1))),
                FacetOf(<<"a","m","t",":">>, Range(FindNumUnit(text, 1) \o FindUnitNum(text, 1)))),
         FacetOf(<<"s","p","i","n","s",":">>, Range(FindSpins(text, 1))))

\* C21: the amount key is the non-empty facets in the order pct, amt, spins
\* with bars between them; each facet is its prefix and its values without
\* duplicates, sorted, with "+" between them; the key is empty when no
\* percentage, amount of money or number of spins is found.
C21_KeyAssembly ==
  IsAmount =>
    call.result = KeyOfFindings(AmountText(call.amount, call.description))

\* a key of three facets, one of them with two values out of three findings
C21_Witness ==
  /\ IsAmount
  /\ call.result = <<"p","c","t",":","5","0","|","a","m","t",":","1","0","0","e","u","r","+","5","0","e","u","r","|","s","p","i","n","s",":","2","0">>
  /\ Len(FindNumUnit(AmountText(call.amount, call.description), 1)) = 3


\* numbers written with thousands separators, each with its digits alone
Separated ==
  { << <<"1",",","0","0","0">>, <<"1","0","0","0">> >>, << <<"1",".","0","0","0">>, <<"1","0","0","0">> >>,
    << <<"2","5",",","0","0","0">>, <<"2","5","0","0","0">> >>, << <<"2","5",".","0","0","0">>, <<"2","5","0","0","0">> >> }

\* C22: the amount key does not depend on the thousands separators of a
\* number: for every unit u of UNIT_LIST, a number written with "," or "."
\* between its thousands before u has the key of the same number written
\* without separators before u.
C22_ThousandsSeparators ==
  IsAmount /\ call.description = <<>> =>
    \A i \in 1..Len(UNIT_LIST), written \in Separated :
      call.amount = written[1] \o <<" ">> \o UNIT_LIST[i]
        => call.result = _parse_amount_key(written[2] \o <<" ">> \o UNIT_LIST[i], <<>>)

\* a number with a thousands separator before a currency code has received
\* its entry
C22_Witness ==
  /\ IsAmount
  /\ call.amount = <<"2","5",".","0","0","0"," ","u","s","d","t">>
  /\ call.result = <<"a","m","t",":","2","5","0","0","0","u","s","d","t">>


IsNormalize == call.op = "_normalize_text"

\* a character without its case and its accent, nothing for a combining mark
FoldChar(c) ==
  IF c \in {"U+0301", "U+0303"} THEN <<>>
  ELSE IF c \in {"Ó", "ó"} THEN <<"o">>
  ELSE IF c \in {"É", "é"} THEN <<"e">>
  ELSE IF c \in {"Ñ", "ñ"} THEN <<"n">>
  ELSE IF \E i \in 1..26 : UpperLetters[i] = c
    THEN << LowerLetters[CHOOSE i \in 1..26 : UpperLetters[i] = c] >>
  ELSE <<c>>

\* a text without the case and the accents of its letters
RECURSIVE Fold(_)
Fold(s) == IF s = <<>> THEN <<>> ELSE FoldChar(Head(s)) \o Fold(Tail(s))

\* the normal form of each text
NormalForms == [ s \in NormTexts |-> _normalize_text(s) ]

\* C23: "Primer Depósito", "primer deposito" and "first deposit" all
\* normalize to "first deposit", and two texts that differ only in the case
\* or the accents of their letters have the same normal form.
C23_CaseAndAccents ==
  IsNormalize =>
    /\ call.s \in { <<"P","r","i","m","e","r"," ","D","e","p","ó","s","i","t","o">>, <<"p","r","i","m","e","r"," ","d","e","p","o","s","i","t","o">>, <<"f","i","r","s","t"," ","d","e","p","o","s","i","t">> }
         => call.result = <<"f","i","r","s","t"," ","d","e","p","o","s","i","t">>
    /\ \A other \in NormTexts :
         Fold(other) = Fold(call.s) => NormalForms[other] = call.result

\* the text with capitals and an accent has received the normal form of
\* another text that differs from it in nothing else
C23_Witness ==
  /\ IsNormalize
  /\ call.s = <<"P","r","i","m","e","r"," ","D","e","p","ó","s","i","t","o">>
  /\ call.result = <<"f","i","r","s","t"," ","d","e","p","o","s","i","t">>
  /\ \E other \in NormTexts : other # call.s /\ Fold(other) = Fold(call.s)


\* the records of a country stored with a date
OwnToday(country, current_date) ==
  { r \in clean_promotions : r.country = country /\ r.scraped_at = current_date }

\* the records of a country stored before a date
OwnEarlier(country, current_date) ==
  { r \in clean_promotions : r.country = country /\ r.scraped_at < current_date }

\* C24: the result of a semantic comparison for a country is the result in
\* the store that holds the records of this country alone, whatever records
\* of other countries the store holds and whatever comparisons were made
\* before it.
C24_CountriesApart ==
  IsSemantic =>
    \E today_rows \in OrderedByCompetitorTitle(OwnToday(call.country, call.current_date)),
       prev_rows \in OrderedByCompetitorTitle(OwnEarlier(call.country, call.current_date)) :
      call.result = SemanticResult(call.country, call.current_date, today_rows, prev_rows)

\* a comparison that reports a record, made after a comparison for the other
\* country in a store that holds records of both countries today
C24_Witness ==
  /\ IsSemantic
  /\ Len(comparison_results) = 2
  /\ comparison_results[1].country # call.country
  /\ call.result.new_count >= 1
  /\ \E r \in clean_promotions : r.country # call.country /\ r.scraped_at = call.current_date


IsCleanHash == call.op = "compare_with_previous_clean"

\* the hash_ids of a set of records
HashIds(S) == { r.hash_id : r \in S }

\* C25: compare_with_previous_clean reports as removed exactly the records
\* of the history whose hash_id is not among those of today, as new exactly
\* the records of today whose hash_id is not among those of the history,
\* each of them once, and removed_count and new_count are the lengths of the
\* two lists.
C25_HashDifference ==
  IsCleanHash =>
    /\ Range(call.result.removed_promotions) =
         { r \in OwnEarlier(call.country, call.current_date) :
             r.hash_id \notin HashIds(OwnToday(call.country, call.current_date)) }
    /\ Range(call.result.new_promotions) =
         { r \in OwnToday(call.country, call.current_date) :
             r.hash_id \notin HashIds(OwnEarlier(call.country, call.current_date)) }
    /\ call.result.removed_count = Len(call.result.removed_promotions)
    /\ call.result.new_count = Len(call.result.new_promotions)
    /\ Len(call.result.removed_promotions) = Cardinality(Range(call.result.removed_promotions))
    /\ Len(call.result.new_promotions) = Cardinality(Range(call.result.new_promotions))

\* a comparison that reports a new and a removed record
C25_Witness ==
  /\ IsCleanHash
  /\ call.result.new_count >= 1
  /\ call.result.removed_count >= 1


\* a call of compare_with_previous is made in the step
RawCompared ==
  /\ comparison_results' # comparison_results
  /\ call'.op = "compare_with_previous"

\* the step is a second call of compare_with_previous with the arguments of
\* the call before it
RawComparedAgain ==
  /\ RawCompared
  /\ call.op = "compare_with_previous"
  /\ call'.country = call.country
  /\ call'.current_date = call.current_date

\* C26: compare_with_previous leaves every row of promotions as it is, and
\* a second call with the same country and date, no record written in
\* between, returns the removed_promotions, removed_count and total_previous
\* of the first.
C26_RawCompareReadsOnly ==
  [][ /\ RawCompared => promotions' = promotions
      /\ RawComparedAgain =>
           /\ call'.result.removed_promotions = call.result.removed_promotions
           /\ call'.result.removed_count = call.result.removed_count
           /\ call'.result.total_previous = call.result.total_previous ]_vars


\* the fixed list of keywords
FixedKeywords ==
  << <<"f","i","r","s","t"," ","d","e","p","o","s","i","t">>,
     <<"w","a","g","e","r","i","n","g">>,
     <<"c","r","y","p","t","o">>,
     <<"s","p","o","r","t","s">>,
     <<"r","e","g","i","s","t","r","a","t","i","o","n">>,
     <<"w","e","l","c","o","m","e"," ","b","o","n","u","s">> >>

\* the places in the fixed list of the keywords that occur in a text
Occurring(text) ==
  { k \in 1..Len(FixedKeywords) : Contains(text, FixedKeywords[k]) }

\* the keywords of a set of places in the order of the list, with "+"
\* between them
RECURSIVE InListOrder(_)
InListOrder(K) ==
  IF K = {} THEN <<>>
  ELSE FixedKeywords[CHOOSE k \in K : \A j \in K : k <= j]
       \o (IF Cardinality(K) > 1 THEN <<"+">> ELSE <<>>)
       \o InListOrder(K \ { CHOOSE k \in K : \A j \in K : k <= j })

\* the signature of a record up to its condition key
BeforeCondKey(x) ==
  _normalize_text(x.competitor) \o <<"|">> \o Upper(x.country) \o <<"|">>
  \o _normalize_text(x.bonus_type) \o <<"|">>
  \o _parse_amount_key(x.bonus_amount, x.description) \o <<"|">>

\* C27: the condition key of a signature is the keywords of the fixed list
\* that occur in the normalized conditions, in the order of the list with
\* "+" between them, whatever their order in the text; the synonyms count:
\* "primer depósito" gives first deposit and "deportes" gives sports.
C27_ConditionKey ==
  IsSignature =>
    /\ call.result = Core(BeforeCondKey(call.row)
                          \o InListOrder(Occurring(_normalize_text(call.row.conditions))))
    /\ call.row.conditions = <<"p","r","i","m","e","r"," ","d","e","p","ó","s","i","t","o">>
         => InListOrder(Occurring(_normalize_text(call.row.conditions))) = <<"f","i","r","s","t"," ","d","e","p","o","s","i","t">>
    /\ call.row.conditions = <<"D","e","p","o","r","t","e","s">>
         => InListOrder(Occurring(_normalize_text(call.row.conditions))) = <<"s","p","o","r","t","s">>

\* the conditions name sports, crypto and the first deposit in this order
\* and the signature ends with the three keywords in the order of the list
C27_Witness ==
  /\ IsSignature
  /\ call.row.conditions = <<"S","p","o","r","t","s"," ","a","n","d"," ","c","r","y","p","t","o"," ","a","f","t","e","r"," ","P","r","i","m","e","r"," ","D","e","p","ó","s","i","t","o">>
  /\ call.result = <<"r","a","b","o","n","a","|","A","E","|","w","e","l","c","o","m","e"," ","b","o","n","u","s","|","a","m","t",":","1","0","0","|","f","i","r","s","t"," ","d","e","p","o","s","i","t","+","c","r","y","p","t","o","+","s","p","o","r","t","s">>


\* C28: normalization is idempotent: the normal form of a text is its own
\* normal form, also when dropping a disallowed character or collapsing
\* blanks makes a synonym phrase appear.
C28_Idempotent ==
  IsNormalize => _normalize_text(call.result) = call.result


\* the six fields of the records that receive a signature
SignedInputs == { SignatureInput(row) : row \in SignatureRows }

\* the signature of each of them
SignatureOf == [ x \in SignedInputs |-> _semantic_signature(x) ]

\* the five components of each of them
ComponentsOf ==
  [ x \in SignedInputs |->
      << _normalize_text(x.competitor), Upper(x.country), _normalize_text(x.bonus_type),
         _parse_amount_key(x.bonus_amount, x.description), CondKey(x) >> ]

\* C29: two records have the same signature if and only if they have the
\* same five components: normalized competitor, upper-cased country,
\* normalized bonus_type, amount key and condition key.
C29_SignatureIsTuple ==
  IsSignature =>
    \A x \in SignedInputs :
      (SignatureOf[x] = call.result)
        <=> (ComponentsOf[x] = ComponentsOf[SignatureInput(call.row)])


IsHashCompare == call.op \in {"compare_with_previous_clean", "compare_with_previous"}

\* the hash_ids of the rows of a table with a country and a date
HashesToday(table, country, current_date) ==
  { r.hash_id : r \in { q \in table : q.country = country /\ q.scraped_at = current_date } }

\* the hash_ids of the rows of a table with a country and an earlier date
HashesEarlier(table, country, current_date) ==
  { r.hash_id : r \in { q \in table : q.country = country /\ q.scraped_at < current_date } }

\* C30: in both tables the hash_ids of the rows of a day and those of the
\* rows of earlier days are disjoint, and the two exact-hash comparators
\* report every record of today as new and every record of the history they
\* considered as removed.
C30_AllNewAllRemoved ==
  /\ \A country \in Countries, current_date \in Days :
       /\ HashesToday(clean_promotions, country, current_date)
            \cap HashesEarlier(clean_promotions, country, current_date) = {}
       /\ HashesToday(promotions, country, current_date)
            \cap HashesEarlier(promotions, country, current_date) = {}
  /\ IsHashCompare =>
       /\ call.result.new_count = call.result.total_current
       /\ call.result.removed_count = call.result.total_previous
       /\ HashesOf(call.result.new_promotions) = HashesOf(call.result.new_promotions)
            \ HashesOf(call.result.removed_promotions)

\* compare_with_previous has compared a day that has records with a history
\* that has records
C30_Witness ==
  /\ call.op = "compare_with_previous"
  /\ call.result.total_current >= 1
  /\ call.result.total_previous >= 1
  /\ call.result.new_count >= 1

=============================================================================
